---- MODULE Spec2Model ----
(***************************************************************************)
(* A model of the cultivate daemon: the content-addressed object store,    *)
(* the RPC backend service on top of it, and the mount store with the      *)
(* FUSE filesystem adapter.                                                *)
(*                                                                         *)
(* Byte strings are sequences of integers 0..255.  A BLAKE3 digest is      *)
(* modelled by its preimage (a collision-free digest), so an id is the     *)
(* byte string that was hashed.  Timestamps are left out: no operation     *)
(* reads them.                                                             *)
(***************************************************************************)
EXTENDS Integers, Sequences, FiniteSets, TLC

VARIABLES
    files,        \* Store.files: id -> File content
    symlinks,     \* Store.symlinks: id -> Symlink target
    trees,        \* Store.trees: id -> Tree (sequence of <<name, entry>>)
    commits,      \* Store.commits: id -> Commit
    poisoned,     \* the store mutexes poisoned by a panic under the lock
    nodes,        \* MountStore.nodes: inode -> InodeAttributes
    directories,  \* MountStore.directories: inode -> DirectoryDescriptor
    next_inode,   \* MountStore.next_inode
    session,      \* the FUSE session: "unmounted", "serving" or "aborted"
    next_file_handle, \* CultivateFS.next_file_handle
    issued,       \* the file handles open and opendir returned, in order
    threads,      \* the threads that call the mount store concurrently
    allocated,    \* the numbers those threads got from allocate_inode, in order
    mounts,       \* RepoManager.mounts: working copy path -> MountStore
    fuse_sessions, \* RepoManager.fuse_sessions: the sessions spawned, in order
    created,      \* the number of mount stores MountStore::new has made
    tasks,        \* the RPC calls in progress, of the handlers or of the client
    reply         \* what the last call answered

storeVars == <<files, symlinks, trees, commits, poisoned>>
allocVars == <<threads, allocated>>
fsVars == <<next_file_handle, issued>>
repoVars == <<mounts, fuse_sessions, created, tasks>>
mountVars == <<nodes, directories, next_inode, session, next_file_handle, issued,
               threads, allocated, mounts, fuse_sessions, created, tasks>>
vars == <<files, symlinks, trees, commits, poisoned,
          nodes, directories, next_inode, session, next_file_handle, issued,
          threads, allocated, mounts, fuse_sessions, created, tasks, reply>>

----------------------------------------------------------------------------
(* Bounds of the model *)

\* most objects (all kinds together, the empty tree aside) held by the store
MaxObjects == 2

----------------------------------------------------------------------------
(* Sequence helpers *)

RECURSIVE Concat(_)
Concat(ss) == IF ss = <<>> THEN <<>> ELSE Head(ss) \o Concat(Tail(ss))

SeqsUpTo(S, n) == UNION {[1..k -> S] : k \in 0..n}

Range(f) == {f[x] : x \in DOMAIN f}

\* m with key k bound to v (HashMap::insert / BTreeMap::insert)
Insert(m, k, v) == [x \in DOMAIN m \cup {k} |-> IF x = k THEN v ELSE m[x]]

\* a remove that leaves the key in place
Remove_kept(m, k) == m

\* m without key k (BTreeMap::remove)
Remove(m, k) == [x \in DOMAIN m \ {k} |-> m[x]]

----------------------------------------------------------------------------
(* content_hash.rs: the canonical encoding that feeds the hasher *)

\* n.to_le_bytes() of a w-byte integer
RECURSIVE to_le_bytes(_, _)
to_le_bytes(n, w) ==
    IF w = 0 THEN <<>> ELSE <<n % 256>> \o to_le_bytes(n \div 256, w - 1)

\* impl ContentHash for [u8] / Vec<u8> / String
ContentHash_bytes(s) == to_le_bytes(Len(s), 8) \o s

\* impl ContentHash for bool
ContentHash_bool(b) == <<IF b THEN 1 ELSE 0>>

\* n.to_le_bytes() of a signed w-byte integer (two's complement)
to_le_bytes_signed(n, w) ==
    IF n >= 0 THEN to_le_bytes(n, w)
    ELSE [i \in 1..w |-> 255 - to_le_bytes(-n - 1, w)[i]]

\* a value of one of the primitive types: its type, and v the one-element
\* sequence of the number (0 or 1 for a bool), the bytes of a string, or
\* nothing for ()
Typed(type, v) == [type |-> type, v |-> v]

\* impl ContentHash for (), bool, u8, i32, i64 and String
ContentHash_primitive(x) ==
    CASE x.type = "unit" -> <<>>
      [] x.type = "bool" -> ContentHash_bool(x.v[1] = 1)
      [] x.type = "u8" -> <<x.v[1]>>
      [] x.type = "i32" -> to_le_bytes_signed(x.v[1], 4)
      [] x.type = "i64" -> to_le_bytes_signed(x.v[1], 8)
      [] x.type = "String" -> ContentHash_bytes(x.v)

\* impl ContentHash for (T, V)
ContentHash_tuple(a, b) == ContentHash_primitive(a) \o ContentHash_primitive(b)

\* impl ContentHash for Option<T>: Some(x) as <<x>>, None as <<>>
ContentHash_option(o) ==
    IF o = <<>> THEN <<0>> ELSE <<1>> \o ContentHash_primitive(o[1])

\* The digest of a byte string: collision-free, modelled by the preimage.
blake3(bytes) == bytes

\* A byte string that is not 32 bytes long, so that Id::try_from fails on it.
WrongLenId == <<255>>

IsId(id) == id # WrongLenId

----------------------------------------------------------------------------
(* store.rs: the objects and their ids *)

\* impl ContentHash for TreeEntry; ConflictId has no encoding (todo!())
TreeEntry_hashable(e) == e.tag \in {"File", "TreeId", "SymlinkId"}

TreeEntry_update(e) ==
    CASE e.tag = "File" ->
            <<48>> \o ContentHash_bytes(e.id) \o ContentHash_bool(e.executable)
      [] e.tag = "TreeId" -> <<49>> \o ContentHash_bytes(e.id)
      [] e.tag = "SymlinkId" -> <<50>> \o ContentHash_bytes(e.id)

Tree_hashable(t) == \A i \in 1..Len(t) : TreeEntry_hashable(t[i][2])

\* content_hash! struct Tree { entries: Vec<(String, TreeEntry)> }
Tree_get_hash(t) ==
    blake3(to_le_bytes(Len(t), 8) \o
           Concat([i \in 1..Len(t) |->
                     ContentHash_bytes(t[i][1]) \o TreeEntry_update(t[i][2])]))

\* a digest of a file that covers the length of the content and not its bytes
File_get_hash_length(content) == blake3(to_le_bytes(Len(content), 8))

\* content_hash! struct File { content: Vec<u8> }
File_get_hash(content) == blake3(ContentHash_bytes(content))

\* content_hash! struct Symlink { target: String }
Symlink_get_hash(target) == blake3(ContentHash_bytes(target))

EmptyTree == <<>>

EmptyTreeId == Tree_get_hash(EmptyTree)

TreeEntryFile(id, x) == [tag |-> "File", id |-> id, executable |-> x]
TreeEntryTree(id) == [tag |-> "TreeId", id |-> id, executable |-> FALSE]
TreeEntrySymlink(id) == [tag |-> "SymlinkId", id |-> id, executable |-> FALSE]
TreeEntryConflict(id) == [tag |-> "ConflictId", id |-> id, executable |-> FALSE]

----------------------------------------------------------------------------
(* The protobuf wire encoding (prost Message::encode_to_vec) *)

RECURSIVE Varint(_)
Varint(n) == IF n < 128 THEN <<n>> ELSE <<(n % 128) + 128>> \o Varint(n \div 128)

\* a length-delimited field: key (field number, wire type 2), length, payload
pb_len_field(field, bytes) == <<field * 8 + 2>> \o Varint(Len(bytes)) \o bytes

\* a singular proto3 bytes/string field is left out when it is empty
pb_singular(field, bytes) == IF bytes = <<>> THEN <<>> ELSE pb_len_field(field, bytes)

\* message File { bytes data }
pb_File(data) == pb_singular(1, data)

\* message Symlink { string target }
pb_Symlink(target) == pb_singular(1, target)

\* message Commit { repeated bytes parents; ... }: the other fields are
\* left at their defaults, which proto3 does not put on the wire
pb_Commit(c) ==
    Concat([i \in 1..Len(c.parents) |-> pb_len_field(1, c.parents[i])])

----------------------------------------------------------------------------
(* Replies *)

NoReply == [op |-> "none", arg |-> <<>>, status |-> "none", val |-> <<>>,
            replaced |-> FALSE]

\* a successful answer carrying val
Ok(op, arg, val) ==
    [op |-> op, arg |-> arg, status |-> "ok", val |-> val, replaced |-> FALSE]

\* a successful insert: val is the id, replaced tells whether the map's
\* insert found the key already bound
Inserted(op, arg, id, replaced) ==
    [op |-> op, arg |-> arg, status |-> "ok", val |-> id, replaced |-> replaced]

\* Err(Status) returned by the handler
Err(op, arg, code, msg) ==
    [op |-> op, arg |-> arg, status |-> code, val |-> msg, replaced |-> FALSE]

\* the handler unwound with a panic (unwrap/expect/todo!/assert!)
Panic(op, arg) ==
    [op |-> op, arg |-> arg, status |-> "panic", val |-> <<>>, replaced |-> FALSE]

----------------------------------------------------------------------------
(* store.rs: Store *)

\* the single entry Store::new() puts in trees
Store_new_trees == Insert(<<>>, EmptyTreeId, EmptyTree)

NumObjects ==
    Cardinality(DOMAIN files) + Cardinality(DOMAIN symlinks)
    + Cardinality(DOMAIN trees \ {EmptyTreeId}) + Cardinality(DOMAIN commits)

\* room for one more object under key id of map m
Room(m, id) == id \in DOMAIN m \/ NumObjects < MaxObjects

\* a store that numbers its files instead of addressing them by content
Store_write_file_map_numbered(fm, content) ==
    Insert(fm, <<Cardinality(DOMAIN fm)>>, content)

\* Store::write_file: hash = file.get_hash(); file_store.insert(hash, file)
Store_write_file_map(fm, content) == Insert(fm, File_get_hash(content), content)

\* Store::write_symlink
Store_write_symlink_map(sm, target) == Insert(sm, Symlink_get_hash(target), target)

\* Store::write_tree
Store_write_tree_map(tm, tree) == Insert(tm, Tree_get_hash(tree), tree)

\* Store::get_file / get_symlink / get_tree: Some(value) as <<value>>, None as <<>>
Store_get(m, id) == IF id \in DOMAIN m THEN <<m[id]>> ELSE <<>>

\* file contents and symlink targets the calls are given
Contents == {<<>>, <<1>>}

Store_write_file(content) ==
    /\ Room(files, File_get_hash(content))
    /\ IF "files" \in poisoned
       THEN /\ reply' = Panic("Store::write_file", content)
            /\ UNCHANGED storeVars
       ELSE /\ files' = Store_write_file_map(files, content)
            /\ reply' = Inserted("Store::write_file", content,
                                 File_get_hash(content),
                                 File_get_hash(content) \in DOMAIN files)
            /\ UNCHANGED <<symlinks, trees, commits, poisoned>>
    /\ UNCHANGED mountVars

Store_write_symlink(target) ==
    /\ Room(symlinks, Symlink_get_hash(target))
    /\ IF "symlinks" \in poisoned
       THEN /\ reply' = Panic("Store::write_symlink", target)
            /\ UNCHANGED storeVars
       ELSE /\ symlinks' = Store_write_symlink_map(symlinks, target)
            /\ reply' = Inserted("Store::write_symlink", target,
                                 Symlink_get_hash(target),
                                 Symlink_get_hash(target) \in DOMAIN symlinks)
            /\ UNCHANGED <<files, trees, commits, poisoned>>
    /\ UNCHANGED mountVars

\* Store::write_tree: the lock is taken before Tree::get_hash, whose todo!()
\* on a ConflictId entry unwinds with the guard alive and poisons the mutex.
Store_write_tree_step(op, arg, tree) ==
    IF "trees" \in poisoned
    THEN /\ reply' = Panic(op, arg)
         /\ UNCHANGED storeVars
    ELSE IF ~Tree_hashable(tree)
    THEN /\ reply' = Panic(op, arg)
         /\ poisoned' = poisoned \cup {"trees"}
         /\ UNCHANGED <<files, symlinks, trees, commits>>
    ELSE /\ trees' = Store_write_tree_map(trees, tree)
         /\ reply' = Inserted(op, arg, Tree_get_hash(tree),
                              Tree_get_hash(tree) \in DOMAIN trees)
         /\ UNCHANGED <<files, symlinks, commits, poisoned>>

Store_write_tree(tree) ==
    /\ Tree_hashable(tree) => Room(trees, Tree_get_hash(tree))
    /\ Store_write_tree_step("Store::write_tree", tree, tree)
    /\ UNCHANGED mountVars

----------------------------------------------------------------------------
(* store.rs: conversions between the wire messages and the store's objects *)

\* A wire TreeValue is [tag, id, executable]; tag "None" is an Entry whose
\* value (or whose oneof) is not set.
ProtoValueNone == [tag |-> "None", id |-> <<>>, executable |-> FALSE]

\* impl From<proto::backend::Tree> for Tree: value.unwrap() and
\* id.try_into().unwrap() panic on an unset value and on an id that is not
\* 32 bytes long.
Tree_from_proto_ok(ptree) ==
    \A i \in 1..Len(ptree) : ptree[i].value.tag # "None" /\ IsId(ptree[i].value.id)

Tree_from_proto(ptree) ==
    [i \in 1..Len(ptree) |-> <<ptree[i].name, ptree[i].value>>]

\* TreeEntry::as_proto: only the File variant is written, the rest is todo!()
TreeEntry_as_proto_ok(e) == e.tag = "File"

TreeEntry_as_proto(e) == [tag |-> "File", id |-> e.id, executable |-> e.executable]

Tree_as_proto_ok(tree) == \A i \in 1..Len(tree) : TreeEntry_as_proto_ok(tree[i][2])

\* Tree::as_proto
Tree_as_proto(tree) ==
    [i \in 1..Len(tree) |->
        [name |-> tree[i][1], value |-> TreeEntry_as_proto(tree[i][2])]]

\* impl From<proto::backend::File> for File; File::as_proto
File_from_proto(data) == data

File_as_proto(content) == content

\* impl From<proto::backend::Symlink> for Symlink; Symlink::as_proto
Symlink_from_proto(target) == target

Symlink_as_proto(target) == target

----------------------------------------------------------------------------
(* service/backend.rs: BackendService *)

\* the id BackendService::write_file gives a file: the digest of its wire bytes
Backend_file_id(data) == blake3(pb_File(data))

Backend_symlink_id(target) == blake3(pb_Symlink(target))

\* a commit id that covers the first parent only
Backend_commit_id_first_parent(c) ==
    IF c.parents = <<>> THEN blake3(<<>>) ELSE blake3(pb_len_field(1, c.parents[1]))

Backend_commit_id(c) == blake3(pb_Commit(c))

Backend_write_file(data) ==
    /\ Room(files, Backend_file_id(data))
    /\ IF "files" \in poisoned
       THEN /\ reply' = Panic("write_file", data)
            /\ UNCHANGED storeVars
       ELSE /\ files' = Insert(files, Backend_file_id(data), File_from_proto(data))
            /\ reply' = Inserted("write_file", data, Backend_file_id(data),
                                 Backend_file_id(data) \in DOMAIN files)
            /\ UNCHANGED <<symlinks, trees, commits, poisoned>>
    /\ UNCHANGED mountVars

\* what read_file answers: lock().unwrap() panics on a poisoned mutex and
\* files.get(id).unwrap() on a miss
Backend_read_file_reply(id) ==
    IF "files" \in poisoned \/ id \notin DOMAIN files
    THEN Panic("read_file", id)
    ELSE Ok("read_file", id, File_as_proto(files[id]))

\* files.get(id).unwrap() runs with the guard alive: a miss poisons the mutex
Backend_read_file(id) ==
    /\ reply' = Backend_read_file_reply(id)
    /\ poisoned' = IF "files" \notin poisoned /\ id \notin DOMAIN files
                   THEN poisoned \cup {"files"} ELSE poisoned
    /\ UNCHANGED <<files, symlinks, trees, commits>>
    /\ UNCHANGED mountVars

Backend_write_symlink(target) ==
    /\ Room(symlinks, Backend_symlink_id(target))
    /\ IF "symlinks" \in poisoned
       THEN /\ reply' = Panic("write_symlink", target)
            /\ UNCHANGED storeVars
       ELSE /\ symlinks' = Insert(symlinks, Backend_symlink_id(target),
                                  Symlink_from_proto(target))
            /\ reply' = Inserted("write_symlink", target, Backend_symlink_id(target),
                                 Backend_symlink_id(target) \in DOMAIN symlinks)
            /\ UNCHANGED <<files, trees, commits, poisoned>>
    /\ UNCHANGED mountVars

Backend_read_symlink_reply(id) ==
    IF "symlinks" \in poisoned \/ id \notin DOMAIN symlinks
    THEN Panic("read_symlink", id)
    ELSE Ok("read_symlink", id, Symlink_as_proto(symlinks[id]))

Backend_read_symlink(id) ==
    /\ reply' = Backend_read_symlink_reply(id)
    /\ poisoned' = IF "symlinks" \notin poisoned /\ id \notin DOMAIN symlinks
                   THEN poisoned \cup {"symlinks"} ELSE poisoned
    /\ UNCHANGED <<files, symlinks, trees, commits>>
    /\ UNCHANGED mountVars

Backend_write_tree(ptree) ==
    /\ (Tree_from_proto_ok(ptree) /\ Tree_hashable(Tree_from_proto(ptree)))
          => Room(trees, Tree_get_hash(Tree_from_proto(ptree)))
    /\ IF ~Tree_from_proto_ok(ptree)
       THEN /\ reply' = Panic("write_tree", ptree)
            /\ UNCHANGED storeVars
       ELSE Store_write_tree_step("write_tree", ptree, Tree_from_proto(ptree))
    /\ UNCHANGED mountVars

\* get_tree clones under the lock and releases it; the unwrap of a miss and
\* the todo!() of as_proto panic without the guard
Backend_read_tree_reply(id) ==
    IF ~IsId(id) \/ "trees" \in poisoned \/ Store_get(trees, id) = <<>>
    THEN Panic("read_tree", id)
    ELSE IF ~Tree_as_proto_ok(trees[id])
    THEN Panic("read_tree", id)
    ELSE Ok("read_tree", id, Tree_as_proto(trees[id]))

Backend_read_tree(id) ==
    /\ reply' = Backend_read_tree_reply(id)
    /\ UNCHANGED storeVars
    /\ UNCHANGED mountVars

NoParentsMessage == "Cannot write a commit with no parents"

\* write_commit without the test for an empty parents list
Backend_write_commit_unchecked(c) ==
    /\ Room(commits, Backend_commit_id(c))
    /\ commits' = Insert(commits, Backend_commit_id(c), c)
    /\ reply' = Inserted("write_commit", c, Backend_commit_id(c),
                         Backend_commit_id(c) \in DOMAIN commits)
    /\ UNCHANGED <<files, symlinks, trees, poisoned>>
    /\ UNCHANGED mountVars

Backend_write_commit(c) ==
    /\ c.parents # <<>> => Room(commits, Backend_commit_id(c))
    /\ IF c.parents = <<>>
       THEN /\ reply' = Err("write_commit", c, "internal", NoParentsMessage)
            /\ UNCHANGED storeVars
       ELSE IF "commits" \in poisoned
       THEN /\ reply' = Panic("write_commit", c)
            /\ UNCHANGED storeVars
       ELSE /\ commits' = Insert(commits, Backend_commit_id(c), c)
            /\ reply' = Inserted("write_commit", c, Backend_commit_id(c),
                                 Backend_commit_id(c) \in DOMAIN commits)
            /\ UNCHANGED <<files, symlinks, trees, poisoned>>
    /\ UNCHANGED mountVars

Backend_read_commit_reply(id) ==
    IF "commits" \in poisoned \/ id \notin DOMAIN commits
    THEN Panic("read_commit", id)
    ELSE Ok("read_commit", id, commits[id])

\* commits.get(id).expect(..) runs with the guard alive
Backend_read_commit(id) ==
    /\ reply' = Backend_read_commit_reply(id)
    /\ poisoned' = IF "commits" \notin poisoned /\ id \notin DOMAIN commits
                   THEN poisoned \cup {"commits"} ELSE poisoned
    /\ UNCHANGED <<files, symlinks, trees, commits>>
    /\ UNCHANGED mountVars

----------------------------------------------------------------------------
(* The inputs the calls are given *)

\* the all-zero root commit id
RootCommitId == <<0>>

\* an id no write has ever returned
UnknownId == <<254>>

TreeNames == {<<97>>, <<98>>}

\* ids a caller can hold: those of stored objects, an unknown one and one of
\* the wrong length
ReadIds(m) == DOMAIN m \cup {UnknownId}

\* the values of a wire tree entry that Store::write_tree accepts
HashableValues ==
    {TreeEntryFile(id, FALSE) : id \in DOMAIN files}
    \cup {TreeEntryTree(id) : id \in DOMAIN trees}
    \cup {TreeEntrySymlink(id) : id \in DOMAIN symlinks}

\* and those a handler panics on: an unset value, a conflict, a short id
ProtoValues ==
    {ProtoValueNone, TreeEntryConflict(EmptyTreeId), TreeEntryFile(WrongLenId, FALSE)}
    \cup {TreeEntryFile(id, TRUE) : id \in DOMAIN files}
    \cup HashableValues

ProtoEntry(n, v) == [name |-> n, value |-> v]

\* wire trees: empty, one entry of any value, or a file entry followed by an
\* entry of another name
ProtoTrees ==
    {<<>>}
    \cup {<<ProtoEntry(<<97>>, v)>> : v \in ProtoValues}
    \cup {<<ProtoEntry(n[1], TreeEntryFile(id, FALSE)), ProtoEntry(n[2], v)>> :
            n \in {m \in TreeNames \X TreeNames : m[1] # m[2]},
            id \in DOMAIN files, v \in HashableValues}

\* store trees a direct caller of Store::write_tree can build
StoreTrees ==
    {Tree_from_proto(pt) : pt \in {p \in ProtoTrees : Tree_from_proto_ok(p)}}

CommitParents == {RootCommitId} \cup DOMAIN commits

\* commits with no parent, one parent, or two (a merge)
ProtoCommits == [parents : SeqsUpTo(CommitParents, 2)]

----------------------------------------------------------------------------
(* The object store and the RPC service on it *)

\* the threads that hold a clone of the mount store: the FUSE session's
\* thread and one other (an RPC handler, the daemon's main, a test)
Threads == {"vfs", "other"}

\* a thread that is in no call of the mount store
IdleThread == [pc |-> "idle", stack |-> <<>>, arg |-> <<>>]

\* the calls that run at the same time: two RPCs in their handlers, or two
\* threads in methods of the blocking client
Tasks == {"first", "second"}

\* a task that is in no call
IdleTask == [pc |-> "idle", op |-> "none", arg |-> <<>>, val |-> <<>>]

\* CultivateFS::new: the first file handle number
FirstFileHandle == 1

Init ==
    /\ files = <<>>
    /\ symlinks = <<>>
    /\ trees = Store_new_trees
    /\ commits = <<>>
    /\ poisoned = {}
    /\ nodes = <<>>
    /\ directories = <<>>
    /\ next_inode = 1
    /\ session = "unmounted"
    /\ next_file_handle = FirstFileHandle
    /\ issued = <<>>
    /\ threads = [t \in Threads |-> IdleThread]
    /\ allocated = <<>>
    /\ mounts = <<>>
    /\ fuse_sessions = <<>>
    /\ created = 0
    /\ tasks = [k \in Tasks |-> IdleTask]
    /\ reply = NoReply

\* the RPC handlers of BackendService
NextRpc ==
    \/ \E d \in Contents : Backend_write_file(d)
    \/ \E id \in ReadIds(files) : Backend_read_file(id)
    \/ \E t \in Contents : Backend_write_symlink(t)
    \/ \E id \in ReadIds(symlinks) : Backend_read_symlink(id)
    \/ \E pt \in ProtoTrees : Backend_write_tree(pt)
    \/ \E id \in ReadIds(trees) \cup {WrongLenId} : Backend_read_tree(id)
    \/ \E c \in ProtoCommits : Backend_write_commit(c)
    \/ \E id \in ReadIds(commits) : Backend_read_commit(id)

\* the direct callers of the store (the tests, the daemon's main)
NextStore ==
    \/ \E c \in Contents : Store_write_file(c)
    \/ \E t \in Contents : Store_write_symlink(t)
    \/ \E t \in StoreTrees : Store_write_tree(t)

Next == NextRpc \/ NextStore

Spec == Init /\ [][Next]_vars

SpecRpc == Init /\ [][NextRpc]_vars

----------------------------------------------------------------------------
(* mount_store.rs: inodes and directory descriptors *)

\* no filesystem request starts to allocate an inode once next_inode is
\* beyond this
MaxInode == 3

\* no set_root_tree starts once next_inode is beyond this
MaxRootInode == 5

\* no write starts once the store holds this many files
MaxFiles == 3

FUSE_ROOT_ID == 1

\* Option<Id>
None == <<>>

Some(x) == <<x>>

\* the directory entries every descriptor starts with
Dot == <<46>>

DotDot == <<46, 46>>

\* attributes that count two links for every kind of inode
InodeAttributes_new_two_links(inode, kind, size) ==
    [inode |-> inode, hash |-> None, open_file_handles |-> 0, size |-> size,
     kind |-> kind, mode |-> 511, hardlinks |-> 2, uid |-> 0, gid |-> 0]

InodeAttributes_new(inode, kind, size) ==
    [inode |-> inode,
     hash |-> None,
     open_file_handles |-> 0,
     size |-> size,
     kind |-> kind,
     mode |-> 511,
     hardlinks |-> IF kind = "Directory" THEN 2 ELSE 1,
     uid |-> 0,
     gid |-> 0]

\* the state the mount store's methods work on
MountState == [nodes |-> nodes, directories |-> directories,
               next_inode |-> next_inode, ok |-> TRUE]

\* MountStore::set_inode
MountStore_set_inode(st, attrs) ==
    [st EXCEPT !.nodes = Insert(@, attrs.inode, attrs)]

\* MountStore::set_directory_content
MountStore_set_directory_content(st, inode, descriptor) ==
    [st EXCEPT !.directories = Insert(@, inode, descriptor)]

\* a panic: the state reached so far stays, the call does not go on
Unwind(st) == [st EXCEPT !.ok = FALSE]

\* an insert_file that leaves the inode without its backing object
MountStore_insert_file_unbacked(st, hash, inode) ==
    IF "files" \in poisoned \/ Store_get(files, hash) = <<>>
    THEN Unwind(st)
    ELSE MountStore_set_inode(st, InodeAttributes_new(inode, "File", 0))

\* MountStore::insert_file: expect() on a file the store does not hold
MountStore_insert_file(st, hash, inode) ==
    IF "files" \in poisoned \/ Store_get(files, hash) = <<>>
    THEN Unwind(st)
    ELSE MountStore_set_inode(st,
            [InodeAttributes_new(inode, "File", Len(files[hash]))
                EXCEPT !.hash = Some(hash)])

\* MountStore::insert_symlink
MountStore_insert_symlink(st, hash, inode) ==
    IF "symlinks" \in poisoned \/ Store_get(symlinks, hash) = <<>>
    THEN Unwind(st)
    ELSE MountStore_set_inode(st,
            [InodeAttributes_new(inode, "Symlink", Len(symlinks[hash]))
                EXCEPT !.hash = Some(hash)])

EntryKind(e) ==
    CASE e.tag = "File" -> "File"
      [] e.tag = "TreeId" -> "Directory"
      [] e.tag = "SymlinkId" -> "Symlink"

RECURSIVE MountStore_insert_tree(_, _, _)
RECURSIVE MountStore_insert_entries(_, _, _, _)

\* the loop of insert_tree from entry i on: allocate an inode, insert the
\* object, add the name to the entries built so far
MountStore_insert_entries(st, entries, tree, i) ==
    IF i > Len(tree)
    THEN [st |-> st, entries |-> entries]
    ELSE LET e == tree[i][2]
             new_inode == st.next_inode
             st1 == [st EXCEPT !.next_inode = @ + 1]
             st2 == CASE e.tag = "File" ->
                            MountStore_insert_file(st1, e.id, new_inode)
                      [] e.tag = "TreeId" ->
                            MountStore_insert_tree(st1, e.id, new_inode)
                      [] e.tag = "SymlinkId" ->
                            MountStore_insert_symlink(st1, e.id, new_inode)
                      [] OTHER -> Unwind(st1)
         IN  IF ~st2.ok
             THEN [st |-> st2, entries |-> entries]
             ELSE MountStore_insert_entries(
                      st2, Insert(entries, tree[i][1], <<new_inode, EntryKind(e)>>),
                      tree, i + 1)

\* MountStore::insert_tree: the descriptor starts with `.` alone
MountStore_insert_tree(st, hash, inode) ==
    IF "trees" \in poisoned \/ Store_get(trees, hash) = <<>>
    THEN Unwind(st)
    ELSE LET r == MountStore_insert_entries(
                      st, Insert(<<>>, Dot, <<inode, "Directory">>), trees[hash], 1)
         IN  IF ~r.st.ok
             THEN r.st
             ELSE MountStore_set_directory_content(
                      MountStore_set_inode(
                          r.st, InodeAttributes_new(inode, "Directory", 0)),
                      inode, r.entries)

\* MountStore::set_root_tree: burn an inode, then insert the tree as inode 1
MountStore_set_root_tree(st, hash) ==
    MountStore_insert_tree([st EXCEPT !.next_inode = @ + 1], hash, 1)

\* the mount store takes the state st
MountStore_becomes(st) ==
    /\ nodes' = st.nodes
    /\ directories' = st.directories
    /\ next_inode' = st.next_inode
    /\ UNCHANGED <<allocVars, repoVars>>

\* the daemon (or a test) sets the root tree before it mounts
set_root_tree(hash) ==
    /\ session = "unmounted"
    /\ next_inode <= MaxRootInode
    /\ LET st == MountStore_set_root_tree(MountState, hash)
       IN  /\ MountStore_becomes(st)
           /\ reply' = IF st.ok THEN Ok("set_root_tree", hash, <<>>)
                       ELSE Panic("set_root_tree", hash)
    /\ UNCHANGED <<storeVars, session, fsVars>>

\* a thread other than the FUSE thread sets the root tree of the mounted
\* store, as the tests do
set_root_tree_mounted(hash) ==
    /\ session = "serving"
    /\ next_inode <= MaxRootInode
    /\ LET st == MountStore_set_root_tree(MountState, hash)
       IN  /\ MountStore_becomes(st)
           /\ reply' = IF st.ok THEN Ok("set_root_tree", hash, <<>>)
                       ELSE Panic("set_root_tree", hash)
    /\ UNCHANGED <<storeVars, session, fsVars>>

\* CultivateFS::get_inode / get_directory_content: Ok(x) as <<x>>, Err(ENOENT) as <<>>
get_inode(st, inode) ==
    IF inode \in DOMAIN st.nodes THEN <<st.nodes[inode]>> ELSE <<>>

get_directory_content(st, inode) ==
    IF inode \in DOMAIN st.directories THEN <<st.directories[inode]>> ELSE <<>>

\* CultivateFS::lookup_name
lookup_name(st, parent, name) ==
    IF get_directory_content(st, parent) = <<>> THEN <<>>
    ELSE IF name \notin DOMAIN st.directories[parent] THEN <<>>
    ELSE get_inode(st, st.directories[parent][name][1])

\* Filesystem::init: the root is the empty tree unless a root is there
init ==
    /\ session = "unmounted"
    /\ IF get_inode(MountState, FUSE_ROOT_ID) = <<>>
       THEN LET st == MountStore_set_root_tree(MountState, EmptyTreeId)
            IN  /\ MountStore_becomes(st)
                /\ session' = IF st.ok THEN "serving" ELSE "aborted"
                /\ reply' = IF st.ok THEN Ok("init", <<>>, <<>>)
                            ELSE Panic("init", <<>>)
       ELSE /\ reply' = Ok("init", <<>>, <<>>)
            /\ session' = "serving"
            /\ UNCHANGED <<nodes, directories, next_inode, allocVars, repoVars>>
    /\ UNCHANGED <<storeVars, fsVars>>

----------------------------------------------------------------------------
(* fs.rs: the filesystem adapter *)

\* libc
F_OK == 0

X_OK == 1

W_OK == 2

S_IFMT == 61440

S_IFREG == 32768

S_IFLNK == 40960

S_IFDIR == 16384

S_IFIFO == 4096

S_ISGID == 1024

RENAME_EXCHANGE == 2

RECURSIVE BitAnd(_, _)
BitAnd(a, b) ==
    IF a = 0 \/ b = 0 THEN 0
    ELSE (a % 2) * (b % 2) + 2 * BitAnd(a \div 2, b \div 2)

\* mask with the bits granted by perm taken away
Granted(mask, perm) == mask - BitAnd(mask, perm)

\* a check that lets root do everything
check_access_root_unchecked(file_uid, file_gid, file_mode, uid, gid, access_mask) ==
    IF access_mask = F_OK \/ uid = 0 THEN TRUE
    ELSE IF uid = file_uid THEN Granted(access_mask, file_mode \div 64) = 0
    ELSE IF gid = file_gid THEN Granted(access_mask, file_mode \div 8) = 0
    ELSE Granted(access_mask, file_mode) = 0

check_access(file_uid, file_gid, file_mode, uid, gid, access_mask) ==
    IF access_mask = F_OK THEN TRUE
    ELSE IF uid = 0
    THEN Granted(Granted(Granted(BitAnd(access_mask, X_OK), file_mode \div 64),
                         file_mode \div 8), file_mode) = 0
    ELSE IF uid = file_uid THEN Granted(access_mask, file_mode \div 64) = 0
    ELSE IF gid = file_gid THEN Granted(access_mask, file_mode \div 8) = 0
    ELSE Granted(access_mask, file_mode) = 0

\* check_access of a request on an inode
Allowed(attrs, req, access_mask) ==
    check_access(attrs.uid, attrs.gid, attrs.mode, req.uid, req.gid, access_mask)

\* a creation_gid that always hands down the parent's group
creation_gid_parent(parent, gid) == parent.gid

creation_gid(parent, gid) ==
    IF BitAnd(parent.mode, S_ISGID) # 0 THEN parent.gid ELSE gid

\* as_file_kind: unimplemented!() on any other type
as_file_kind(mode) ==
    CASE BitAnd(mode, S_IFMT) = S_IFREG -> "File"
      [] BitAnd(mode, S_IFMT) = S_IFLNK -> "Symlink"
      [] BitAnd(mode, S_IFMT) = S_IFDIR -> "Directory"

\* MountStore::create_new_node: the state after it; the new inode is the
\* next_inode of st
MountStore_create_new_node(st, kind) ==
    MountStore_set_inode([st EXCEPT !.next_inode = @ + 1],
                         InodeAttributes_new(st.next_inode, kind, 0))

\* what a handler leaves behind: the mount state st, the errno it replied
\* ("" for a success, "panic" when it unwound)
Outcome(st, errno) == [st |-> st, errno |-> errno]

\* the filesystem thread takes the outcome of handler op, whose reply
\* carries val when it succeeds
HandledVal(op, arg, out, val) ==
    /\ MountStore_becomes(out.st)
    /\ UNCHANGED fsVars
    /\ session' = IF out.errno \in {"panic", "overflow"} THEN "aborted" ELSE session
    /\ reply' = CASE out.errno = "" -> Ok(op, arg, val)
                  [] out.errno = "panic" -> Panic(op, <<>>)
                  [] OTHER -> Err(op, <<>>, out.errno, <<>>)

\* the filesystem thread takes the outcome of handler op
Handled(op, arg, out) == HandledVal(op, arg, out, <<>>)

\* the filesystem thread serves requests from init on until it panics
Serving == session = "serving"

\* an insert_link that records every entry as a file
insert_link_as_file(st, req, parent, name, inode, kind) ==
    IF lookup_name(st, parent, name) # <<>> THEN Outcome(st, "EEXIST")
    ELSE IF get_inode(st, parent) = <<>> THEN Outcome(st, "ENOENT")
    ELSE Outcome(MountStore_set_directory_content(
                    st, parent, Insert(st.directories[parent], name, <<inode, "File">>)),
                 "")

\* CultivateFS::insert_link
insert_link(st, req, parent, name, inode, kind) ==
    IF lookup_name(st, parent, name) # <<>> THEN Outcome(st, "EEXIST")
    ELSE IF get_inode(st, parent) = <<>> THEN Outcome(st, "ENOENT")
    ELSE IF ~Allowed(st.nodes[parent], req, W_OK) THEN Outcome(st, "EACCES")
    ELSE IF get_directory_content(st, parent) = <<>> THEN Outcome(st, "panic")
    ELSE Outcome(MountStore_set_directory_content(
                    st, parent, Insert(st.directories[parent], name, <<inode, kind>>)),
                 "")

\* Filesystem::mknod
mknod_outcome(st, req, parent, name, mode) ==
    IF BitAnd(mode, S_IFMT) \notin {S_IFREG, S_IFLNK, S_IFDIR}
    THEN Outcome(st, "ENOSYS")
    ELSE IF lookup_name(st, parent, name) # <<>> THEN Outcome(st, "EEXIST")
    ELSE IF get_inode(st, parent) = <<>> THEN Outcome(st, "ENOENT")
    ELSE LET kind == as_file_kind(mode)
             new == st.next_inode
             st1 == MountStore_create_new_node(st, kind)
             st2 == MountStore_set_inode(st1,
                       [st1.nodes[new] EXCEPT
                           !.uid = req.uid,
                           !.gid = creation_gid(st.nodes[parent], req.gid)])
         IN  IF get_directory_content(st2, parent) = <<>>
             THEN Outcome(st2, "panic")
             ELSE LET st3 == MountStore_set_directory_content(
                                st2, parent,
                                Insert(st2.directories[parent], name, <<new, kind>>))
                  IN  IF kind = "Directory"
                      THEN Outcome(st3, "panic")
                      ELSE Outcome(st3, "")

mknod(req, parent, name, mode) ==
    /\ Serving
    /\ next_inode <= MaxInode
    /\ Handled("mknod", [parent |-> parent, name |-> name],
               mknod_outcome(MountState, req, parent, name, mode))
    /\ UNCHANGED storeVars

\* Filesystem::mkdir
mkdir_outcome(st, req, parent, name) ==
    IF lookup_name(st, parent, name) # <<>> THEN Outcome(st, "EEXIST")
    ELSE IF get_inode(st, parent) = <<>> THEN Outcome(st, "ENOENT")
    ELSE IF ~Allowed(st.nodes[parent], req, W_OK) THEN Outcome(st, "EACCES")
    ELSE LET new == st.next_inode
             st1 == MountStore_create_new_node(st, "Directory")
             st2 == MountStore_set_inode(st1,
                       [st1.nodes[new] EXCEPT
                           !.uid = req.uid,
                           !.gid = creation_gid(st.nodes[parent], req.gid)])
         IN  IF get_directory_content(st2, parent) = <<>>
             THEN Outcome(st2, "panic")
             ELSE LET st3 == MountStore_set_directory_content(
                                st2, parent,
                                Insert(st2.directories[parent], name,
                                       <<new, "Directory">>))
                      st4 == MountStore_set_directory_content(
                                st3, new,
                                Insert(Insert(<<>>, Dot, <<new, "Directory">>),
                                       DotDot, <<parent, "Directory">>))
                  IN  Outcome(st4, "")

mkdir(req, parent, name) ==
    /\ Serving
    /\ next_inode <= MaxInode
    /\ Handled("mkdir", [parent |-> parent, name |-> name],
               mkdir_outcome(MountState, req, parent, name))
    /\ UNCHANGED storeVars

\* the bytes b1 .. b2 are continuation bytes in the given range of the first
Utf8Tail(bytes, lo, hi, n) ==
    /\ Len(bytes) > n
    /\ bytes[2] >= lo
    /\ bytes[2] <= hi
    /\ \A i \in 3..(n + 1) : bytes[i] >= 128 /\ bytes[i] <= 191

\* the length of the well-formed UTF-8 sequence bytes starts with, 0 if none
Utf8Width(bytes) ==
    LET b == bytes[1]
    IN  CASE b <= 127 -> 1
          [] b >= 194 /\ b <= 223 -> IF Utf8Tail(bytes, 128, 191, 1) THEN 2 ELSE 0
          [] b = 224 -> IF Utf8Tail(bytes, 160, 191, 2) THEN 3 ELSE 0
          [] b >= 225 /\ b <= 236 -> IF Utf8Tail(bytes, 128, 191, 2) THEN 3 ELSE 0
          [] b = 237 -> IF Utf8Tail(bytes, 128, 159, 2) THEN 3 ELSE 0
          [] b >= 238 /\ b <= 239 -> IF Utf8Tail(bytes, 128, 191, 2) THEN 3 ELSE 0
          [] b = 240 -> IF Utf8Tail(bytes, 144, 191, 3) THEN 4 ELSE 0
          [] b >= 241 /\ b <= 243 -> IF Utf8Tail(bytes, 128, 191, 3) THEN 4 ELSE 0
          [] b = 244 -> IF Utf8Tail(bytes, 128, 143, 3) THEN 4 ELSE 0
          [] OTHER -> 0

\* Path::to_str: Some(the bytes as a str) when they are UTF-8, else None
RECURSIVE to_str(_)
to_str(bytes) ==
    IF bytes = <<>> THEN <<bytes>>
    ELSE LET w == Utf8Width(bytes)
         IN  IF w = 0 \/ to_str(SubSeq(bytes, w + 1, Len(bytes))) = <<>>
             THEN <<>>
             ELSE <<bytes>>

\* a symlink that leaves the size of the new inode at zero
symlink_outcome_unsized(st, req, parent, link_name, target) ==
    IF get_inode(st, parent) = <<>> THEN Outcome(st, "ENOENT")
    ELSE IF ~Allowed(st.nodes[parent], req, W_OK) THEN Outcome(st, "EACCES")
    ELSE LET new == st.next_inode
             st1 == MountStore_create_new_node(st, "Symlink")
             attrs == [st1.nodes[new] EXCEPT
                          !.uid = req.uid,
                          !.gid = creation_gid(st.nodes[parent], req.gid)]
             linked == insert_link(st1, req, parent, link_name, new, "Symlink")
         IN  IF linked.errno # "" THEN linked
             ELSE IF "symlinks" \in poisoned THEN Outcome(linked.st, "panic")
             ELSE IF to_str(target) = <<>> THEN Outcome(linked.st, "panic")
             ELSE Outcome(MountStore_set_inode(
                             linked.st,
                             [attrs EXCEPT
                                 !.hash = Some(Symlink_get_hash(to_str(target)[1]))]),
                          "")

\* Filesystem::symlink: the node is created before insert_link looks the
\* name up, and gets its owner, size and hash only when the link is in
symlink_outcome(st, req, parent, link_name, target) ==
    IF get_inode(st, parent) = <<>> THEN Outcome(st, "ENOENT")
    ELSE IF ~Allowed(st.nodes[parent], req, W_OK) THEN Outcome(st, "EACCES")
    ELSE LET new == st.next_inode
             st1 == MountStore_create_new_node(st, "Symlink")
             attrs == [st1.nodes[new] EXCEPT
                          !.uid = req.uid,
                          !.gid = creation_gid(st.nodes[parent], req.gid),
                          !.size = Len(target)]
             linked == insert_link(st1, req, parent, link_name, new, "Symlink")
         IN  IF linked.errno # "" THEN linked
             ELSE IF "symlinks" \in poisoned THEN Outcome(linked.st, "panic")
             ELSE IF to_str(target) = <<>> THEN Outcome(linked.st, "panic")
             ELSE Outcome(MountStore_set_inode(
                             linked.st,
                             [attrs EXCEPT
                                 !.hash = Some(Symlink_get_hash(to_str(target)[1]))]),
                          "")

symlink(req, parent, link_name, target) ==
    /\ Serving
    /\ next_inode <= MaxInode
    /\ LET out == symlink_outcome(MountState, req, parent, link_name, target)
       IN  /\ Handled("symlink", [parent |-> parent, name |-> link_name], out)
           /\ symlinks' = IF out.errno = ""
                          THEN Store_write_symlink_map(symlinks, to_str(target)[1])
                          ELSE symlinks
           \* to_str(target).unwrap() fails with the symlinks lock held
           /\ poisoned' = IF /\ out.errno = "panic"
                             /\ get_directory_content(MountState, parent) # <<>>
                          THEN poisoned \cup {"symlinks"}
                          ELSE poisoned
    /\ UNCHANGED <<files, trees, commits>>

\* Filesystem::readlink
readlink_reply(st, sm, locks, inode) ==
    IF get_inode(st, inode) = <<>> THEN Err("readlink", <<>>, "ENOENT", <<>>)
    ELSE IF st.nodes[inode].hash = None THEN Panic("readlink", <<>>)
    ELSE IF "symlinks" \in locks THEN Panic("readlink", <<>>)
    ELSE IF Store_get(sm, st.nodes[inode].hash[1]) = <<>> THEN Panic("readlink", <<>>)
    ELSE Ok("readlink", [inode |-> inode], <<Store_get(sm, st.nodes[inode].hash[1])[1]>>)

readlink(inode) ==
    /\ Serving
    /\ reply' = readlink_reply(MountState, symlinks, poisoned, inode)
    /\ session' = IF reply'.status = "panic" THEN "aborted" ELSE session
    /\ UNCHANGED <<storeVars, nodes, directories, next_inode, allocVars, repoVars, fsVars>>

\* the width of a handle's sequence number: 62 bits in the code, below the
\* two permission bits; the model keeps the layout at a smaller width
HandleSeqBits == 2

\* FILE_HANDLE_WRITE_BIT = 1 << 62: the bit above the sequence number
FILE_HANDLE_WRITE_BIT == 2 ^ HandleSeqBits

\* FILE_HANDLE_READ_BIT = 1 << 63
FILE_HANDLE_READ_BIT == 2 * FILE_HANDLE_WRITE_BIT

\* a | b
BitOr(a, b) == a + b - BitAnd(a, b)

\* a file handle: the number n with the permission bits or-ed in
FileHandle(n, read, write) ==
    LET r == IF read THEN BitOr(n, FILE_HANDLE_READ_BIT) ELSE n
    IN  IF write THEN BitOr(r, FILE_HANDLE_WRITE_BIT) ELSE r

\* an allocation without the assertion on the number
allocate_next_file_handle_unasserted(counter, read, write) ==
    [next_file_handle |-> counter + 1, ok |-> TRUE,
     fh |-> FileHandle(counter, read, write)]

\* CultivateFS::allocate_next_file_handle: fetch_add, then the assertion
\* that the number is below both permission bits
allocate_next_file_handle(counter, read, write) ==
    [next_file_handle |-> counter + 1,
     ok |-> counter < (IF FILE_HANDLE_READ_BIT < FILE_HANDLE_WRITE_BIT
                       THEN FILE_HANDLE_READ_BIT ELSE FILE_HANDLE_WRITE_BIT),
     fh |-> FileHandle(counter, read, write)]

\* a check that lets every handle pass
check_file_handle_unchecked(fh) == TRUE

\* CultivateFS::check_file_handle_write
check_file_handle_write(fh) == BitAnd(fh, FILE_HANDLE_WRITE_BIT) # 0

RECURSIVE Zeros(_)
Zeros(n) == IF n <= 0 THEN <<>> ELSE <<0>> \o Zeros(n - 1)

\* a cursor that drops what the vector held beyond the written data
Cursor_write_all_truncating(content, offset, data) ==
    SubSeq(content \o Zeros(offset - Len(content)), 1, offset) \o data

\* Cursor<Vec<u8>>: set_position(offset), write_all(data) with data not empty:
\* the vector is padded with zeros up to offset, data overwrites from there
Cursor_write_all(content, offset, data) ==
    LET padded == content \o Zeros(offset - Len(content))
    IN  SubSeq(padded, 1, offset) \o data
        \o SubSeq(padded, offset + Len(data) + 1, Len(padded))

\* the file a write works on: the inode's backing object, or an empty file
write_file_of(attrs) ==
    IF attrs.hash = None THEN <<>> ELSE files[attrs.hash[1]]

\* Filesystem::write
write_outcome(st, inode, fh, offset, data) ==
    IF ~check_file_handle_write(fh) THEN Outcome(st, "EACCES")
    ELSE IF "files" \in poisoned THEN Outcome(st, "panic")
    ELSE IF get_inode(st, inode) = <<>> THEN Outcome(st, "EBADF")
    ELSE LET attrs == st.nodes[inode]
         IN  IF attrs.hash # None /\ attrs.hash[1] \notin DOMAIN files
             THEN Outcome(st, "panic")
             ELSE LET content == Cursor_write_all(write_file_of(attrs), offset, data)
                      size == IF Len(data) + offset > attrs.size
                              THEN Len(data) + offset ELSE attrs.size
                  IN  Outcome(MountStore_set_inode(
                                  st, [attrs EXCEPT !.size = size,
                                                    !.hash = Some(File_get_hash(content))]),
                              "")

write(inode, fh, offset, data) ==
    /\ Serving
    /\ Cardinality(DOMAIN files) < MaxFiles
    /\ LET out == write_outcome(MountState, inode, fh, offset, data)
           hit == /\ check_file_handle_write(fh)
                  /\ "files" \notin poisoned
                  /\ get_inode(MountState, inode) # <<>>
       IN  /\ HandledVal("write", [inode |-> inode, offset |-> offset], out,
                         <<Len(data)>>)
           /\ files' = IF out.errno = ""
                       THEN Store_write_file_map(
                                files,
                                Cursor_write_all(write_file_of(nodes[inode]), offset, data))
                       ELSE files
           /\ poisoned' = IF hit /\ out.errno = "panic"
                          THEN poisoned \cup {"files"} ELSE poisoned
    /\ UNCHANGED <<symlinks, trees, commits>>

\* CultivateFS::check_file_handle_read
check_file_handle_read(fh) == BitAnd(fh, FILE_HANDLE_READ_BIT) # 0

\* the bytes read() puts in its buffer: vec![0; read_size], then
\* read_exact(&mut buffer[offset..]) from a cursor at the start of the
\* content; not ok when the slice start is beyond the buffer (a panic)
read_buffer(content, offset, size) ==
    LET file_size == Len(content)
        rest == IF file_size > offset THEN file_size - offset ELSE 0
        read_size == IF size < rest THEN size ELSE rest
    IN  IF offset > read_size THEN [ok |-> FALSE, data |-> <<>>]
        ELSE [ok |-> TRUE,
              data |-> Zeros(offset) \o SubSeq(content, 1, read_size - offset)]

\* Filesystem::read: the reply
read_reply(st, inode, fh, offset, size) ==
    LET arg == [inode |-> inode, offset |-> offset, size |-> size]
    IN  IF ~check_file_handle_read(fh) THEN Err("read", <<>>, "EACCES", <<>>)
        ELSE IF "files" \in poisoned THEN Panic("read", <<>>)
        ELSE IF get_inode(st, inode) = <<>> THEN Err("read", <<>>, "ENOENT", <<>>)
        ELSE LET attrs == st.nodes[inode]
             IN  IF attrs.hash = None \/ attrs.hash[1] \notin DOMAIN files
                 THEN Panic("read", <<>>)
                 ELSE LET buffer == read_buffer(files[attrs.hash[1]], offset, size)
                      IN  IF ~buffer.ok THEN Panic("read", <<>>)
                          ELSE Ok("read", arg, buffer.data)

\* Filesystem::read: a panic unwinds with the lock on the files held
read(inode, fh, offset, size) ==
    /\ Serving
    /\ reply' = read_reply(MountState, inode, fh, offset, size)
    /\ session' = IF reply'.status = "panic" THEN "aborted" ELSE session
    /\ poisoned' = IF reply'.status = "panic" THEN poisoned \cup {"files"} ELSE poisoned
    /\ UNCHANGED <<files, symlinks, trees, commits, nodes, directories, next_inode,
                   fsVars, allocVars, repoVars>>

\* libc / fs.rs: the open flags
O_ACCMODE == 3

O_RDONLY == 0

O_WRONLY == 1

O_RDWR == 2

O_TRUNC == 512

FMODE_EXEC == 32

R_OK == 4

\* what open and opendir derive from the flags
Access(errno, access_mask, rd, wr) ==
    [errno |-> errno, access_mask |-> access_mask, read |-> rd, write |-> wr]

\* Filesystem::open: the match on flags & O_ACCMODE
open_access(flags) ==
    LET mode == BitAnd(flags, O_ACCMODE)
    IN  CASE mode = O_RDONLY ->
                 IF BitAnd(flags, O_TRUNC) # 0 THEN Access("EACCES", 0, FALSE, FALSE)
                 ELSE IF BitAnd(flags, FMODE_EXEC) # 0 THEN Access("", X_OK, TRUE, FALSE)
                 ELSE Access("", R_OK, TRUE, FALSE)
          [] mode = O_WRONLY -> Access("", W_OK, FALSE, TRUE)
          [] mode = O_RDWR -> Access("", BitOr(R_OK, W_OK), TRUE, TRUE)
          [] OTHER -> Access("EINVAL", 0, FALSE, FALSE)

\* Filesystem::opendir: the match on flags & O_ACCMODE
opendir_access(flags) ==
    LET mode == BitAnd(flags, O_ACCMODE)
    IN  CASE mode = O_RDONLY ->
                 IF BitAnd(flags, O_TRUNC) # 0 THEN Access("EACCES", 0, FALSE, FALSE)
                 ELSE Access("", R_OK, TRUE, FALSE)
          [] mode = O_WRONLY -> Access("", W_OK, FALSE, TRUE)
          [] mode = O_RDWR -> Access("", BitOr(R_OK, W_OK), TRUE, TRUE)
          [] OTHER -> Access("EINVAL", 0, FALSE, FALSE)

\* InodeAttributes::inc_file_handle
inc_file_handle(attrs) == [attrs EXCEPT !.open_file_handles = @ + 1]

\* InodeAttributes::dec_file_handle
dec_file_handle(attrs) ==
    IF attrs.open_file_handles = 0 THEN attrs
    ELSE [attrs EXCEPT !.open_file_handles = @ - 1]

\* what open and opendir leave behind: the mount state, the counter, the
\* errno ("" for a success, "panic" for the failed assertion) and the handle
Opening(st, counter, errno, fh) ==
    [st |-> st, next_file_handle |-> counter, errno |-> errno, fh |-> fh]

\* Filesystem::open and opendir after the match: get_inode, check_access,
\* inc_file_handle, set_inode, allocate_next_file_handle, reply.opened
open_inode(st, counter, req, inode, access) ==
    IF access.errno # "" THEN Opening(st, counter, access.errno, 0)
    ELSE IF get_inode(st, inode) = <<>> THEN Opening(st, counter, "ENOENT", 0)
    ELSE LET attr == st.nodes[inode]
         IN  IF ~Allowed(attr, req, access.access_mask)
             THEN Opening(st, counter, "EACCES", 0)
             ELSE LET st1 == MountStore_set_inode(st, inc_file_handle(attr))
                      a == allocate_next_file_handle(counter, access.read, access.write)
                  IN  Opening(st1, a.next_file_handle,
                              IF a.ok THEN "" ELSE "panic", a.fh)

\* the filesystem thread takes the outcome of an open or opendir
Opened(op, arg, out) ==
    /\ MountStore_becomes(out.st)
    /\ next_file_handle' = out.next_file_handle
    /\ issued' = IF out.errno = "" THEN Append(issued, out.fh) ELSE issued
    /\ session' = IF out.errno = "panic" THEN "aborted" ELSE session
    /\ reply' = CASE out.errno = "" -> Ok(op, arg, <<out.fh>>)
                  [] out.errno = "panic" -> Panic(op, <<>>)
                  [] OTHER -> Err(op, <<>>, out.errno, <<>>)
    /\ UNCHANGED storeVars

\* Filesystem::open
open(req, inode, flags) ==
    /\ Serving
    /\ Opened("open", [inode |-> inode],
              open_inode(MountState, next_file_handle, req, inode, open_access(flags)))

\* Filesystem::opendir
opendir(req, inode, flags) ==
    /\ Serving
    /\ Opened("opendir", [inode |-> inode],
              open_inode(MountState, next_file_handle, req, inode, opendir_access(flags)))

\* Filesystem::release and releasedir: the mount state after it
release_outcome(st, inode) ==
    IF get_inode(st, inode) = <<>> THEN Outcome(st, "")
    ELSE Outcome(MountStore_set_inode(st, dec_file_handle(st.nodes[inode])), "")

\* Filesystem::release
release(inode) ==
    /\ Serving
    /\ Handled("release", [inode |-> inode], release_outcome(MountState, inode))
    /\ UNCHANGED storeVars

\* Filesystem::releasedir
releasedir(inode) ==
    /\ Serving
    /\ Handled("releasedir", [inode |-> inode], release_outcome(MountState, inode))
    /\ UNCHANGED storeVars

\* Filesystem::rmdir: error!(..) and panic!()
rmdir_outcome(st, req, parent, name) == Outcome(st, "panic")

rmdir(req, parent, name) ==
    /\ Serving
    /\ Handled("rmdir", [parent |-> parent, name |-> name],
               rmdir_outcome(MountState, req, parent, name))
    /\ UNCHANGED storeVars

\* InodeAttributes::dec_hardlink_count on a u32
dec_hardlink_count(attrs) == [attrs EXCEPT !.hardlinks = @ - 1]

\* Filesystem::rename
rename_outcome(st, req, parent, name, new_parent, new_name, flags) ==
    IF lookup_name(st, parent, name) = <<>> THEN Outcome(st, "ENOENT")
    ELSE IF get_inode(st, parent) = <<>> THEN Outcome(st, "ENOENT")
    ELSE IF ~Allowed(st.nodes[parent], req, W_OK) THEN Outcome(st, "EACCES")
    ELSE IF get_inode(st, new_parent) = <<>> THEN Outcome(st, "ENOENT")
    ELSE IF ~Allowed(st.nodes[new_parent], req, W_OK) THEN Outcome(st, "EACCES")
    ELSE IF BitAnd(flags, RENAME_EXCHANGE) # 0 THEN Outcome(st, "panic")
    ELSE
    LET inode_attrs == lookup_name(st, parent, name)[1]
        parent_attrs == st.nodes[parent]
        new_parent_attrs == st.nodes[new_parent]
        target == lookup_name(st, new_parent, new_name)
    IN  IF /\ target # <<>>
           /\ target[1].kind = "Directory"
           /\ get_directory_content(st, target[1].inode) = <<>>
        THEN Outcome(st, "panic")
        ELSE IF /\ target # <<>>
                /\ target[1].kind = "Directory"
                /\ Cardinality(DOMAIN st.directories[target[1].inode]) > 2
        THEN Outcome(st, "ENOTEMPTY")
        ELSE IF /\ inode_attrs.kind = "Directory"
                /\ parent # new_parent
                /\ ~Allowed(inode_attrs, req, W_OK)
        THEN Outcome(st, "EACCES")
        ELSE
        LET \* the target's entry is removed before its kind is looked at
            st1 == IF target = <<>> THEN st
                   ELSE MountStore_set_directory_content(
                            st, new_parent, Remove(st.directories[new_parent], new_name))
            st2 == IF target = <<>> THEN st1
                   ELSE MountStore_set_inode(st1, dec_hardlink_count(target[1]))
        IN  IF target # <<>> /\ target[1].kind = "Directory"
            THEN Outcome(st1, "panic")
            ELSE IF target # <<>> /\ target[1].hardlinks = 0
            THEN Outcome(st1, "overflow")
            ELSE
            LET st3 == MountStore_set_directory_content(
                           st2, parent, Remove(st2.directories[parent], name))
                st4 == MountStore_set_directory_content(
                           st3, new_parent,
                           Insert(st3.directories[new_parent], new_name,
                                  <<inode_attrs.inode, inode_attrs.kind>>))
                \* the copies read at the start are written back
                st5 == MountStore_set_inode(
                           MountStore_set_inode(
                               MountStore_set_inode(st4, parent_attrs),
                               new_parent_attrs),
                           inode_attrs)
            IN  IF inode_attrs.kind # "Directory" THEN Outcome(st5, "")
                ELSE IF get_directory_content(st5, inode_attrs.inode) = <<>>
                THEN Outcome(st5, "panic")
                ELSE Outcome(MountStore_set_directory_content(
                                 st5, inode_attrs.inode,
                                 Insert(st5.directories[inode_attrs.inode], DotDot,
                                        <<new_parent, "Directory">>)),
                             "")

rename(req, parent, name, new_parent, new_name, flags) ==
    /\ Serving
    /\ Handled("rename",
               [parent |-> parent, name |-> name,
                new_parent |-> new_parent, new_name |-> new_name],
               rename_outcome(MountState, req, parent, name, new_parent, new_name, flags))
    /\ UNCHANGED storeVars

----------------------------------------------------------------------------
(* The mounted filesystem over a store that holds a nested tree *)

\* names of directory entries the kernel asks about
Names == {<<97>>, <<98>>}

\* the caller: an ordinary user
Requests == {[uid |-> 1000, gid |-> 1000]}

\* a regular file, a symlink, a directory and a fifo
Modes == {S_IFREG + 420, S_IFLNK + 511, S_IFDIR + 493, S_IFIFO + 420}

SymlinkTargets == {<<2, 2>>}

WriteOffsets == {0, 1}

WriteData == {<<2>>}

FileHandles == {FileHandle(1, TRUE, TRUE), FileHandle(1, TRUE, FALSE)}

RenameFlags == {0, RENAME_EXCHANGE}

\* the inodes the entries of the directories in S name, `.` and `..` aside
Children(S) ==
    UNION {{directories[d][n][1] : n \in DOMAIN directories[d] \ {Dot, DotDot}} :
             d \in S \cap DOMAIN directories}

RECURSIVE Reach(_)
Reach(S) == IF Children(S) \subseteq S THEN S ELSE Reach(S \cup Children(S))

\* the inodes the kernel gets to by lookups from the root
KnownInodes == Reach({FUSE_ROOT_ID}) \cap DOMAIN nodes

DirectoryInodes == {i \in KnownInodes : nodes[i].kind = "Directory"}

FileInodes == {i \in KnownInodes : nodes[i].kind = "File"}

\* the objects of the store: a file, a symlink, a tree of the two, a tree
\* with that tree as its one entry, and a tree whose file is not in the store
FixtureFile == <<1>>

FixtureSymlink == <<1, 1>>

ChildTree ==
    << <<(<<97>>), TreeEntryFile(File_get_hash(FixtureFile), FALSE)>>,
       <<(<<98>>), TreeEntrySymlink(Symlink_get_hash(FixtureSymlink))>> >>

RootTree == << <<(<<97>>), TreeEntryTree(Tree_get_hash(ChildTree))>> >>

DanglingTree == << <<(<<98>>), TreeEntryFile(UnknownId, FALSE)>> >>

InitMount ==
    /\ files = Store_write_file_map(<<>>, FixtureFile)
    /\ symlinks = Store_write_symlink_map(<<>>, FixtureSymlink)
    /\ trees = Store_write_tree_map(
                  Store_write_tree_map(
                      Store_write_tree_map(Store_new_trees, ChildTree),
                      RootTree),
                  DanglingTree)
    /\ commits = <<>>
    /\ poisoned = {}
    /\ nodes = <<>>
    /\ directories = <<>>
    /\ next_inode = 1
    /\ session = "unmounted"
    /\ next_file_handle = FirstFileHandle
    /\ issued = <<>>
    /\ threads = [t \in Threads |-> IdleThread]
    /\ allocated = <<>>
    /\ mounts = <<>>
    /\ fuse_sessions = <<>>
    /\ created = 0
    /\ tasks = [k \in Tasks |-> IdleTask]
    /\ reply = NoReply

\* the operations that build and move directories
NextDirs ==
    \/ \E t \in DOMAIN trees : set_root_tree(t)
    \/ init
    \/ \E req \in Requests, p \in DirectoryInodes, n \in Names : mkdir(req, p, n)
    \/ \E req \in Requests, p \in DirectoryInodes, n \in Names,
          np \in DirectoryInodes, nn \in Names, fl \in RenameFlags :
            rename(req, p, n, np, nn, fl)

NextMount ==
    \/ NextDirs
    \/ \E req \in Requests, p \in DirectoryInodes, n \in Names, m \in Modes :
            mknod(req, p, n, m)
    \/ \E req \in Requests, p \in DirectoryInodes, n \in Names, t \in SymlinkTargets :
            symlink(req, p, n, t)
    \/ \E i \in FileInodes, fh \in FileHandles, o \in WriteOffsets, d \in WriteData :
            write(i, fh, o, d)

SpecDirs == InitMount /\ [][NextDirs]_vars

SpecMount == InitMount /\ [][NextMount]_vars

\* impl From<InodeAttributes> for fuser::FileAttr, without the timestamps
FileAttr(attrs) ==
    [ino |-> attrs.inode, size |-> attrs.size, kind |-> attrs.kind,
     perm |-> attrs.mode, nlink |-> attrs.hardlinks,
     uid |-> attrs.uid, gid |-> attrs.gid]

\* Filesystem::getattr
getattr_reply(st, inode) ==
    IF get_inode(st, inode) = <<>> THEN Err("getattr", <<>>, "ENOENT", <<>>)
    ELSE Ok("getattr", [inode |-> inode], <<FileAttr(st.nodes[inode])>>)

getattr(inode) ==
    /\ Serving
    /\ reply' = getattr_reply(MountState, inode)
    /\ UNCHANGED <<storeVars, mountVars>>

\* Filesystem::setattr: "Setattr not implemented"; the supplied values are
\* not looked at and the reply carries the inode's attributes as they are
setattr_reply(st, inode, mode, uid, gid, size) ==
    IF get_inode(st, inode) = <<>> THEN Err("setattr", <<>>, "ENOENT", <<>>)
    ELSE Ok("setattr",
            [inode |-> inode, mode |-> mode, uid |-> uid, gid |-> gid, size |-> size],
            <<FileAttr(st.nodes[inode])>>)

setattr(inode, mode, uid, gid, size) ==
    /\ Serving
    /\ reply' = setattr_reply(MountState, inode, mode, uid, gid, size)
    /\ UNCHANGED <<storeVars, mountVars>>

\* the values a setattr supplies or leaves out
SetattrModes == {None, Some(420)}

SetattrUids == {None, Some(1000)}

SetattrGids == {None, Some(1000)}

SetattrSizes == {None, Some(0), Some(3)}

\* Ord for Vec<u8>: lexicographic, a proper prefix first
RECURSIVE BytesLess(_, _)
BytesLess(a, b) ==
    IF b = <<>> THEN FALSE
    ELSE IF a = <<>> THEN TRUE
    ELSE IF a[1] # b[1] THEN a[1] < b[1]
    ELSE BytesLess(Tail(a), Tail(b))

\* an iteration that takes the longer names first
RECURSIVE BTreeMap_iter_longest_first(_)
BTreeMap_iter_longest_first(m) ==
    IF DOMAIN m = {} THEN <<>>
    ELSE LET first == CHOOSE k \in DOMAIN m :
                          \A o \in DOMAIN m \ {k} :
                              Len(o) < Len(k) \/ (Len(o) = Len(k) /\ BytesLess(k, o))
         IN  << <<first, m[first]>> >> \o BTreeMap_iter_longest_first(Remove(m, first))

\* BTreeMap::iter: the (key, value) pairs in ascending key order
RECURSIVE BTreeMap_iter(_)
BTreeMap_iter(m) ==
    IF DOMAIN m = {} THEN <<>>
    ELSE LET first == CHOOSE k \in DOMAIN m :
                          \A o \in DOMAIN m \ {k} : BytesLess(k, o)
         IN  << <<first, m[first]>> >> \o BTreeMap_iter(Remove(m, first))

\* Filesystem::readdir with a reply buffer that has room for room entries:
\* reply.add refuses the entry that does not fit and the loop stops there
readdir_reply(st, inode, offset, room) ==
    IF offset < 0 THEN Panic("readdir", <<>>)
    ELSE IF get_directory_content(st, inode) = <<>>
    THEN Err("readdir", <<>>, "ENOENT", <<>>)
    ELSE LET entries == BTreeMap_iter(st.directories[inode])
             skipped == SubSeq(entries, offset + 1, Len(entries))
             added == IF room < Len(skipped) THEN room ELSE Len(skipped)
         IN  Ok("readdir", [inode |-> inode, offset |-> offset],
                [index \in 1..added |->
                    [ino |-> skipped[index][2][1],
                     offset |-> offset + (index - 1) + 1,
                     kind |-> skipped[index][2][2],
                     name |-> skipped[index][1]]])

readdir(inode, offset, room) ==
    /\ Serving
    /\ reply' = readdir_reply(MountState, inode, offset, room)
    /\ session' = IF reply'.status = "panic" THEN "aborted" ELSE session
    /\ UNCHANGED <<storeVars, nodes, directories, next_inode, allocVars, repoVars, fsVars>>

\* the offsets the kernel resumes a listing from, and the entries its buffer holds
ReaddirOffsets == 0..4

ReaddirRooms == {1, 2, 4}

\* an inode number no inode has
MissingInode == 99

\* directories made and listed
NextList ==
    \/ \E t \in DOMAIN trees : set_root_tree(t)
    \/ init
    \/ \E req \in Requests, p \in DirectoryInodes, n \in Names : mkdir(req, p, n)
    \/ \E i \in KnownInodes \cup {MissingInode}, o \in ReaddirOffsets,
          r \in ReaddirRooms : readdir(i, o, r)

SpecList == InitMount /\ [][NextList]_vars

\* the permission and special bits of a mode
ModeBits == 12

AccessModes == 0..(2 ^ ModeBits - 1)

\* root, the user of the requests, and another user; two groups
AccessFileUids == {0, 1000}

AccessUids == {0, 1000, 1001}

AccessFileGids == {1000}

AccessGids == {1000, 1001}

\* every mask built from R_OK, W_OK and X_OK, F_OK included
AccessMasks == 0..(R_OK + W_OK + X_OK)

\* a call of check_access that waits to be made
AccessCalls ==
    [file_uid : AccessFileUids, file_gid : AccessFileGids, file_mode : AccessModes,
     uid : AccessUids, gid : AccessGids, access_mask : AccessMasks]

InitAccess ==
    /\ files = <<>>
    /\ symlinks = <<>>
    /\ trees = Store_new_trees
    /\ commits = <<>>
    /\ poisoned = {}
    /\ nodes = <<>>
    /\ directories = <<>>
    /\ next_inode = 1
    /\ session = "unmounted"
    /\ next_file_handle = FirstFileHandle
    /\ issued = <<>>
    /\ threads = [t \in Threads |-> IdleThread]
    /\ allocated = <<>>
    /\ mounts = <<>>
    /\ fuse_sessions = <<>>
    /\ created = 0
    /\ tasks = [k \in Tasks |-> IdleTask]
    /\ \E a \in AccessCalls :
          reply = [op |-> "check_access", arg |-> a, status |-> "called",
                   val |-> <<>>, replaced |-> FALSE]

\* the call is made: its result is in the reply
check_access_call ==
    /\ reply.op = "check_access"
    /\ reply.status = "called"
    /\ reply' = Ok("check_access", reply.arg,
                  check_access(reply.arg.file_uid, reply.arg.file_gid,
                               reply.arg.file_mode, reply.arg.uid, reply.arg.gid,
                               reply.arg.access_mask))
    /\ UNCHANGED <<storeVars, mountVars>>

NextAccess == check_access_call

SpecAccess == InitAccess /\ [][NextAccess]_vars

\* values of the primitive types the hasher is given
Primitives ==
    {Typed("unit", <<>>)}
    \cup {Typed("bool", <<v>>) : v \in {0, 1}}
    \cup {Typed("u8", <<v>>) : v \in {0, 1, 255}}
    \cup {Typed("i32", <<v>>) : v \in {0, 1, -1, 42}}
    \cup {Typed("i64", <<v>>) : v \in {0, 1, -1}}
    \cup {Typed("String", v) : v \in {<<>>, <<0>>, <<97>>}}

InitHash ==
    /\ files = <<>>
    /\ symlinks = <<>>
    /\ trees = Store_new_trees
    /\ commits = <<>>
    /\ poisoned = {}
    /\ nodes = <<>>
    /\ directories = <<>>
    /\ next_inode = 1
    /\ session = "unmounted"
    /\ next_file_handle = FirstFileHandle
    /\ issued = <<>>
    /\ threads = [t \in Threads |-> IdleThread]
    /\ allocated = <<>>
    /\ mounts = <<>>
    /\ fuse_sessions = <<>>
    /\ created = 0
    /\ tasks = [k \in Tasks |-> IdleTask]
    /\ \E a \in Primitives, b \in Primitives, x \in Primitives :
          reply = [op |-> "blake3", arg |-> [a |-> a, b |-> b, x |-> x],
                   status |-> "called", val |-> <<>>, replaced |-> FALSE]

\* the hashes of (a, b), Some(x), None and x are taken
blake3_call ==
    /\ reply.op = "blake3"
    /\ reply.status = "called"
    /\ reply' = Ok("blake3", reply.arg,
                  [tuple |-> blake3(ContentHash_tuple(reply.arg.a, reply.arg.b)),
                   some |-> blake3(ContentHash_option(Some(reply.arg.x))),
                   none |-> blake3(ContentHash_option(None)),
                   plain |-> blake3(ContentHash_primitive(reply.arg.x))])
    /\ UNCHANGED <<storeVars, mountVars>>

NextHash == blake3_call

SpecHash == InitHash /\ [][NextHash]_vars

----------------------------------------------------------------------------
(* repo_manager.rs: RepoManager, and the BackendService handlers that use it *)

\* the mount stores one run makes
MaxCreated == 3

\* working copy paths: two directories and a path that is no directory
RepoDirectories == {"/a", "/b"}

RepoPaths == RepoDirectories \cup {"/f"}

\* Path::is_dir
is_dir(path) == path \in RepoDirectories

\* the length of an OperationId: [u8; 64]
OperationIdLen == 64

\* MountStore::new: tables of its own (named by id), no operation id, no
\* workspace id, and the store's empty tree id; locks holds the poisoned
\* ones of its mutexes
MountStore_new(id) ==
    [id |-> id, op_id |-> None, workspace_id |-> None, tree_id |-> EmptyTreeId,
     locks |-> {}]

\* RepoManager::get: a clone of the registered mount store, which shares
\* every Arc of the original
RepoManager_get(path) ==
    IF "mounts" \in poisoned THEN [ok |-> FALSE, mount |-> <<>>]
    ELSE [ok |-> TRUE, mount |-> Store_get(mounts, path)]

\* RepoManager::initialize_repo: the guard of mounts is held to the end, so
\* every panic from the first assertion on poisons that mutex; mounted tells
\* whether Session::new and spawn succeed
initialize_repo(mountpoint, mounted) ==
    LET mount_store == MountStore_new(created + 1)
    IN  IF "mounts" \in poisoned
        THEN [ok |-> FALSE, mounts |-> mounts, fuse_sessions |-> fuse_sessions,
              poisoned |-> poisoned]
        ELSE IF mountpoint \in DOMAIN mounts
        THEN [ok |-> FALSE, mounts |-> mounts, fuse_sessions |-> fuse_sessions,
              poisoned |-> poisoned \cup {"mounts"}]
        ELSE IF ~is_dir(mountpoint) \/ ~mounted \/ "fuse_sessions" \in poisoned
        THEN [ok |-> FALSE, mounts |-> Insert(mounts, mountpoint, mount_store),
              fuse_sessions |-> fuse_sessions,
              poisoned |-> poisoned \cup {"mounts"}]
        ELSE [ok |-> TRUE, mounts |-> Insert(mounts, mountpoint, mount_store),
              fuse_sessions |-> Append(fuse_sessions,
                                       [mountpoint |-> mountpoint,
                                        mount_store |-> mount_store.id]),
              poisoned |-> poisoned]

\* what a handler leaves alone besides the repo manager and the reply
RepoFrame ==
    UNCHANGED <<files, symlinks, trees, commits, nodes, directories, next_inode,
                session, fsVars, allocVars, tasks>>

\* BackendService::initialize
Backend_initialize(path, mounted) ==
    /\ created < MaxCreated
    /\ LET r == initialize_repo(path, mounted)
       IN  /\ created' = created + 1
           /\ mounts' = r.mounts
           /\ fuse_sessions' = r.fuse_sessions
           /\ poisoned' = r.poisoned
           /\ reply' = IF r.ok THEN Ok("initialize", path, <<>>)
                       ELSE Panic("initialize", path)
    /\ RepoFrame

\* RepoManager::get called on its own
RepoManager_get_call(path) ==
    /\ reply' = IF RepoManager_get(path).ok
                THEN Ok("get", path, RepoManager_get(path).mount)
                ELSE Panic("get", path)
    /\ UNCHANGED <<storeVars, mountVars>>

\* RepoManager::deinit_repo: "De-init ALL repos"
deinit_repo(mountpoint) ==
    /\ IF "fuse_sessions" \in poisoned
       THEN /\ reply' = Panic("deinit_repo", mountpoint)
            /\ UNCHANGED fuse_sessions
       ELSE /\ reply' = Ok("deinit_repo", mountpoint, <<>>)
            /\ fuse_sessions' = <<>>
    /\ UNCHANGED <<mounts, created, poisoned>>
    /\ RepoFrame

\* repo_mgr.get(path).unwrap()
HasMount(path) == RepoManager_get(path).ok /\ RepoManager_get(path).mount # <<>>

\* MountStore::get_tree_id
MountStore_get_tree_id(mount) ==
    IF "tree_id" \in mount.locks THEN <<>> ELSE <<mount.tree_id>>

\* BackendService::get_tree_state and BackendService::snapshot
tree_id_reply(op, path) ==
    IF ~HasMount(path) THEN Panic(op, path)
    ELSE IF MountStore_get_tree_id(mounts[path]) = <<>> THEN Panic(op, path)
    ELSE Ok(op, path, MountStore_get_tree_id(mounts[path])[1])

Backend_get_tree_state(path) ==
    /\ reply' = tree_id_reply("get_tree_state", path)
    /\ UNCHANGED <<storeVars, mountVars>>

Backend_snapshot(path) ==
    /\ reply' = tree_id_reply("snapshot", path)
    /\ UNCHANGED <<storeVars, mountVars>>

\* a setter that stores the value as the tree id of the mount as well
MountStore_set_field_and_tree_id(mount, field, value) ==
    IF field \in mount.locks THEN [ok |-> FALSE, mount |-> mount]
    ELSE [ok |-> TRUE,
          mount |-> [mount EXCEPT ![field] = Some(value), !.tree_id = value]]

\* MountStore::get_op_id / get_workspace_id: lock().unwrap(), then unwrap()
\* of the Option with the guard held
MountStore_get_field(mount, field) ==
    IF field \in mount.locks THEN [ok |-> FALSE, mount |-> mount, val |-> <<>>]
    ELSE IF mount[field] = None
    THEN [ok |-> FALSE, mount |-> [mount EXCEPT !.locks = @ \cup {field}],
          val |-> <<>>]
    ELSE [ok |-> TRUE, mount |-> mount, val |-> mount[field][1]]

\* MountStore::set_op_id / set_workspace_id
MountStore_set_field(mount, field, value) ==
    IF field \in mount.locks THEN [ok |-> FALSE, mount |-> mount]
    ELSE [ok |-> TRUE, mount |-> [mount EXCEPT ![field] = Some(value)]]

\* BackendService::get_checkout_state
Backend_get_checkout_state(path) ==
    /\ IF ~HasMount(path)
       THEN /\ reply' = Panic("get_checkout_state", path)
            /\ UNCHANGED mounts
       ELSE LET op == MountStore_get_field(mounts[path], "op_id")
                ws == MountStore_get_field(op.mount, "workspace_id")
            IN  IF ~op.ok
                THEN /\ reply' = Panic("get_checkout_state", path)
                     /\ mounts' = [mounts EXCEPT ![path] = op.mount]
                ELSE IF ~ws.ok
                THEN /\ reply' = Panic("get_checkout_state", path)
                     /\ mounts' = [mounts EXCEPT ![path] = ws.mount]
                ELSE /\ reply' = Ok("get_checkout_state", path,
                                    [op_id |-> op.val, workspace_id |-> ws.val])
                     /\ UNCHANGED mounts
    /\ UNCHANGED <<fuse_sessions, created, poisoned>>
    /\ RepoFrame

\* cs.op_id.try_into(): a Vec<u8> becomes [u8; 64] when it has 64 bytes
try_into_OperationId(bytes) ==
    IF Len(bytes) = OperationIdLen THEN <<bytes>> ELSE <<>>

\* BackendService::set_checkout_state; checkout_state is the Option of the
\* request
Backend_set_checkout_state(path, checkout_state) ==
    /\ IF \/ ~HasMount(path)
          \/ checkout_state = None
       THEN /\ reply' = Panic("set_checkout_state", [path |-> path])
            /\ UNCHANGED mounts
       ELSE LET cs == checkout_state[1]
                arg == [path |-> path, op_id |-> cs.op_id,
                        workspace_id |-> cs.workspace_id]
            IN  IF \/ try_into_OperationId(cs.op_id) = <<>>
                   \/ to_str(cs.workspace_id) = <<>>
                THEN /\ reply' = Panic("set_checkout_state", [path |-> path])
                     /\ UNCHANGED mounts
                ELSE LET op == MountStore_set_field(
                                   mounts[path], "op_id",
                                   try_into_OperationId(cs.op_id)[1])
                         ws == MountStore_set_field(
                                   op.mount, "workspace_id",
                                   to_str(cs.workspace_id)[1])
                     IN  IF ~op.ok
                         THEN /\ reply' = Panic("set_checkout_state", [path |-> path])
                              /\ UNCHANGED mounts
                         ELSE /\ mounts' = [mounts EXCEPT ![path] = ws.mount]
                              /\ reply' = IF ws.ok
                                          THEN Ok("set_checkout_state", arg, <<>>)
                                          ELSE Panic("set_checkout_state", [path |-> path])
    /\ UNCHANGED <<fuse_sessions, created, poisoned>>
    /\ RepoFrame

\* what a step of a task leaves alone besides the repo manager, the tasks
\* and the reply
TaskFrame ==
    UNCHANGED <<files, symlinks, trees, commits, nodes, directories, next_inode,
                session, fsVars, allocVars, fuse_sessions, created, poisoned>>

\* task k goes on at pc
TaskGoes(k, pc, op, arg, val) ==
    tasks' = [tasks EXCEPT ![k] = [pc |-> pc, op |-> op, arg |-> arg, val |-> val]]

TaskReturns(k) == tasks' = [tasks EXCEPT ![k] = IdleTask]

\* BackendService::set_checkout_state in a task of the server: the request
\* is taken apart and repo_mgr.get(path) returns a clone of the mount store
set_checkout_state_get(k, path, checkout_state) ==
    /\ tasks[k].pc = "idle"
    /\ IF \/ ~HasMount(path)
          \/ checkout_state = None
          \/ try_into_OperationId(checkout_state[1].op_id) = <<>>
          \/ to_str(checkout_state[1].workspace_id) = <<>>
       THEN /\ reply' = Panic("set_checkout_state", [path |-> path])
            /\ UNCHANGED tasks
       ELSE /\ TaskGoes(k, "set_op_id", "set_checkout_state",
                        <<[path |-> path,
                           op_id |-> try_into_OperationId(checkout_state[1].op_id)[1],
                           workspace_id |-> to_str(checkout_state[1].workspace_id)[1]]>>,
                        <<>>)
            /\ UNCHANGED reply
    /\ UNCHANGED mounts
    /\ TaskFrame

\* mount.set_op_id(op_id): the op_id mutex is taken and released
set_checkout_state_set_op_id(k) ==
    /\ tasks[k].pc = "set_op_id"
    /\ LET a == tasks[k].arg[1]
           r == MountStore_set_field(mounts[a.path], "op_id", a.op_id)
       IN  IF ~r.ok
           THEN /\ reply' = Panic("set_checkout_state", [path |-> a.path])
                /\ TaskReturns(k)
                /\ UNCHANGED mounts
           ELSE /\ mounts' = [mounts EXCEPT ![a.path] = r.mount]
                /\ TaskGoes(k, "set_workspace_id", tasks[k].op, tasks[k].arg, <<>>)
                /\ UNCHANGED reply
    /\ TaskFrame

\* mount.set_workspace_id(workspace_id), then the reply
set_checkout_state_set_workspace_id(k) ==
    /\ tasks[k].pc = "set_workspace_id"
    /\ LET a == tasks[k].arg[1]
           r == MountStore_set_field(mounts[a.path], "workspace_id", a.workspace_id)
       IN  IF ~r.ok
           THEN /\ reply' = Panic("set_checkout_state", [path |-> a.path])
                /\ UNCHANGED mounts
           ELSE /\ mounts' = [mounts EXCEPT ![a.path] = r.mount]
                /\ reply' = Ok("set_checkout_state", a, <<>>)
    /\ TaskReturns(k)
    /\ TaskFrame

\* BackendService::get_checkout_state in a task of the server:
\* repo_mgr.get(path).unwrap()
get_checkout_state_get(k, path) ==
    /\ tasks[k].pc = "idle"
    /\ IF ~HasMount(path)
       THEN /\ reply' = Panic("get_checkout_state", path)
            /\ UNCHANGED tasks
       ELSE /\ TaskGoes(k, "get_op_id", "get_checkout_state", <<[path |-> path]>>, <<>>)
            /\ UNCHANGED reply
    /\ UNCHANGED mounts
    /\ TaskFrame

\* mount.get_op_id()
get_checkout_state_get_op_id(k) ==
    /\ tasks[k].pc = "get_op_id"
    /\ LET a == tasks[k].arg[1]
           r == MountStore_get_field(mounts[a.path], "op_id")
       IN  /\ mounts' = [mounts EXCEPT ![a.path] = r.mount]
           /\ IF ~r.ok
              THEN /\ reply' = Panic("get_checkout_state", a.path)
                   /\ TaskReturns(k)
              ELSE /\ TaskGoes(k, "get_workspace_id", tasks[k].op, tasks[k].arg,
                               <<r.val>>)
                   /\ UNCHANGED reply
    /\ TaskFrame

\* mount.get_workspace_id(), then the reply with both
get_checkout_state_get_workspace_id(k) ==
    /\ tasks[k].pc = "get_workspace_id"
    /\ LET a == tasks[k].arg[1]
           r == MountStore_get_field(mounts[a.path], "workspace_id")
       IN  /\ mounts' = [mounts EXCEPT ![a.path] = r.mount]
           /\ reply' = IF ~r.ok THEN Panic("get_checkout_state", a.path)
                       ELSE Ok("get_checkout_state", a.path,
                               [op_id |-> tasks[k].val[1], workspace_id |-> r.val])
    /\ TaskReturns(k)
    /\ TaskFrame

\* operation ids: two of 64 bytes, a short one and an empty one
OpIdOf(b) == [i \in 1..OperationIdLen |-> b]

OperationIds == {OpIdOf(1), OpIdOf(2), <<1, 2, 3>>, <<>>}

\* workspace ids: two strings and bytes that are not UTF-8
WorkspaceIds == {<<119>>, <<120, 121>>, <<255>>}

CheckoutStates ==
    {None} \cup {Some([op_id |-> o, workspace_id |-> w]) :
                    o \in OperationIds, w \in WorkspaceIds}

NextRepo ==
    \/ \E p \in RepoPaths, mounted \in BOOLEAN : Backend_initialize(p, mounted)
    \/ \E p \in RepoPaths : RepoManager_get_call(p)
    \/ \E p \in RepoPaths : deinit_repo(p)
    \/ \E p \in RepoPaths : Backend_get_tree_state(p)
    \/ \E p \in RepoPaths : Backend_snapshot(p)
    \/ \E p \in RepoPaths : Backend_get_checkout_state(p)
    \/ \E p \in RepoPaths, cs \in CheckoutStates : Backend_set_checkout_state(p, cs)

SpecRepo == Init /\ [][NextRepo]_vars

\* the checkout states the clients record: each operation with its workspace
RecordedStates ==
    {Some([op_id |-> OpIdOf(1), workspace_id |-> <<119>>]),
     Some([op_id |-> OpIdOf(2), workspace_id |-> <<120, 121>>])}

\* working copies are initialized, and their checkout state is set and read
\* by RPCs that run at the same time
NextCheckout ==
    \/ \E p \in RepoDirectories : Backend_initialize(p, TRUE)
    \/ \E k \in Tasks, p \in RepoDirectories, cs \in RecordedStates :
            set_checkout_state_get(k, p, cs)
    \/ \E k \in Tasks : set_checkout_state_set_op_id(k)
    \/ \E k \in Tasks : set_checkout_state_set_workspace_id(k)
    \/ \E k \in Tasks, p \in RepoDirectories : get_checkout_state_get(k, p)
    \/ \E k \in Tasks : get_checkout_state_get_op_id(k)
    \/ \E k \in Tasks : get_checkout_state_get_workspace_id(k)

SpecCheckout == Init /\ [][NextCheckout]_vars

\* the working copy whose life is followed
LifePaths == {"/a"}

\* the checkout state recorded during that life
LifeStates == {Some([op_id |-> OpIdOf(1), workspace_id |-> <<119>>])}

\* the life of a mount: the working copy is initialized, its checkout state
\* set and read, its tree id asked for, while the kernel's requests and
\* set_root_tree change the mounted tree
NextLife ==
    \/ \E p \in LifePaths : Backend_initialize(p, TRUE)
    \/ \E p \in LifePaths : Backend_get_tree_state(p)
    \/ \E p \in LifePaths : Backend_snapshot(p)
    \/ \E p \in LifePaths : Backend_get_checkout_state(p)
    \/ \E p \in LifePaths, cs \in LifeStates : Backend_set_checkout_state(p, cs)
    \/ \E t \in DOMAIN trees : set_root_tree(t)
    \/ init
    \/ \E req \in Requests, p \in DirectoryInodes, n \in Names : mkdir(req, p, n)
    \/ \E req \in Requests, p \in DirectoryInodes, n \in Names, m \in Modes :
            mknod(req, p, n, m)
    \/ \E req \in Requests, p \in DirectoryInodes, n \in Names, t \in SymlinkTargets :
            symlink(req, p, n, t)
    \/ \E req \in Requests, p \in DirectoryInodes, n \in Names,
          np \in DirectoryInodes, nn \in Names :
            rename(req, p, n, np, nn, 0)
    \/ \E i \in FileInodes, fh \in FileHandles, o \in WriteOffsets, d \in WriteData :
            write(i, fh, o, d)

SpecLife == Init /\ [][NextLife]_vars

----------------------------------------------------------------------------
(* cli/src/blocking_client.rs: BlockingBackendClient.  Every clone shares  *)
(* the two mutexes, client and rt; a task is a thread in one method, and   *)
(* val holds the locks it has, in the order it took them.                  *)

\* the methods of the client
ClientMethods ==
    {"get_tree_state", "set_checkout_state", "get_checkout_state", "snapshot",
     "write_commit", "read_commit", "write_file", "read_file", "write_tree",
     "read_tree", "get_empty_tree_id"}

\* the mutex a method locks first and the one it locks second:
\* get_empty_tree_id takes rt and then client, every other method client
\* and then rt
first_lock(method) == IF method = "get_empty_tree_id" THEN "rt" ELSE "client"

second_lock(method) == IF method = "get_empty_tree_id" THEN "client" ELSE "rt"

\* some thread holds that mutex
Held(lock) == \E k \in Tasks : lock \in Range(tasks[k].val)

\* what a step of the client leaves alone
ClientFrame ==
    UNCHANGED <<storeVars, nodes, directories, next_inode, session, fsVars,
                allocVars, mounts, fuse_sessions, created>>

\* a thread calls a method on its clone of the client
BlockingBackendClient_call(k, method) ==
    /\ tasks[k].pc = "idle"
    /\ TaskGoes(k, "lock_first", method, <<>>, <<>>)
    /\ UNCHANGED reply
    /\ ClientFrame

\* the first lock().unwrap() of the method: the thread waits while another
\* thread has the mutex
BlockingBackendClient_lock_first(k) ==
    /\ tasks[k].pc = "lock_first"
    /\ ~Held(first_lock(tasks[k].op))
    /\ TaskGoes(k, "lock_second", tasks[k].op, <<>>, <<first_lock(tasks[k].op)>>)
    /\ UNCHANGED reply
    /\ ClientFrame

\* the second lock().unwrap()
BlockingBackendClient_lock_second(k) ==
    /\ tasks[k].pc = "lock_second"
    /\ ~Held(second_lock(tasks[k].op))
    /\ TaskGoes(k, "block_on", tasks[k].op, <<>>,
                Append(tasks[k].val, second_lock(tasks[k].op)))
    /\ UNCHANGED reply
    /\ ClientFrame

\* rt.block_on(client.method(request)): the RPC completes with a response
\* or a status, the method returns and both guards are dropped
BlockingBackendClient_block_on(k, completed) ==
    /\ tasks[k].pc = "block_on"
    /\ reply' = IF completed THEN Ok(tasks[k].op, <<>>, <<>>)
                ELSE Err(tasks[k].op, <<>>, "Status", <<>>)
    /\ TaskReturns(k)
    /\ ClientFrame

\* threads that call the methods of clones of one client
NextClient ==
    \/ \E k \in Tasks, m \in ClientMethods : BlockingBackendClient_call(k, m)
    \/ \E k \in Tasks : BlockingBackendClient_lock_first(k)
    \/ \E k \in Tasks : BlockingBackendClient_lock_second(k)
    \/ \E k \in Tasks, c \in BOOLEAN : BlockingBackendClient_block_on(k, c)

SpecClient == Init /\ [][NextClient]_vars

\* attributes set and read
NextAttrs ==
    \/ \E t \in DOMAIN trees : set_root_tree(t)
    \/ init
    \/ \E i \in KnownInodes \cup {MissingInode} : getattr(i)
    \/ \E i \in KnownInodes \cup {MissingInode}, m \in SetattrModes,
          u \in SetattrUids, g \in SetattrGids, sz \in SetattrSizes :
            setattr(i, m, u, g, sz)

SpecAttrs == InitMount /\ [][NextAttrs]_vars

\* link targets: ASCII, a two-byte character, and bytes that are not UTF-8
LinkTargets == {<<97>>, <<98, 99>>, <<195, 169>>, <<255>>}

\* symlinks made by the kernel's requests, and read back
NextLinks ==
    \/ \E t \in DOMAIN trees : set_root_tree(t)
    \/ init
    \/ \E req \in Requests, p \in DirectoryInodes, n \in Names, t \in LinkTargets :
            symlink(req, p, n, t)
    \/ \E i \in KnownInodes \cup {MissingInode} : readlink(i)

SpecLinks == InitMount /\ [][NextLinks]_vars

\* the handles, offsets and sizes of the kernel's read requests
ReadHandles == {FileHandle(1, TRUE, TRUE), FileHandle(1, FALSE, TRUE)}

ReadOffsets == {0, 1, 2}

ReadSizes == {1, 2}

\* a mount whose files are created, written and read
NextFiles ==
    \/ \E t \in DOMAIN trees : set_root_tree(t)
    \/ init
    \/ \E req \in Requests, p \in DirectoryInodes, n \in Names, m \in Modes :
            mknod(req, p, n, m)
    \/ \E i \in FileInodes, fh \in FileHandles, o \in WriteOffsets, d \in WriteData :
            write(i, fh, o, d)
    \/ \E i \in KnownInodes, fh \in ReadHandles, o \in ReadOffsets, sz \in ReadSizes :
            read(i, fh, o, sz)

SpecFiles == InitMount /\ [][NextFiles]_vars

\* a tree whose two names are entries of one file id, as in the test
\* read_nested_simple_tree
TwinTree ==
    << <<(<<97>>), TreeEntryFile(File_get_hash(FixtureFile), FALSE)>>,
       <<(<<98>>), TreeEntryFile(File_get_hash(FixtureFile), FALSE)>> >>

InitShared ==
    /\ files = Store_write_file_map(<<>>, FixtureFile)
    /\ symlinks = <<>>
    /\ trees = Store_write_tree_map(Store_new_trees, TwinTree)
    /\ commits = <<>>
    /\ poisoned = {}
    /\ nodes = <<>>
    /\ directories = <<>>
    /\ next_inode = 1
    /\ session = "unmounted"
    /\ next_file_handle = FirstFileHandle
    /\ issued = <<>>
    /\ threads = [t \in Threads |-> IdleThread]
    /\ allocated = <<>>
    /\ mounts = <<>>
    /\ fuse_sessions = <<>>
    /\ created = 0
    /\ tasks = [k \in Tasks |-> IdleTask]
    /\ reply = NoReply

\* a mount whose inodes share a backing object and are written and read
NextShared ==
    \/ \E t \in DOMAIN trees : set_root_tree(t)
    \/ init
    \/ \E req \in Requests, p \in DirectoryInodes, n \in Names, t \in SymlinkTargets :
            symlink(req, p, n, t)
    \/ \E i \in FileInodes, fh \in FileHandles, o \in WriteOffsets, d \in WriteData :
            write(i, fh, o, d)
    \/ \E i \in FileInodes, fh \in ReadHandles, o \in ReadOffsets, sz \in ReadSizes :
            read(i, fh, o, sz)

SpecShared == InitShared /\ [][NextShared]_vars

\* a mount whose inodes, materialized or made by mknod, are read
NextReads ==
    \/ \E t \in DOMAIN trees : set_root_tree(t)
    \/ init
    \/ \E req \in Requests, p \in DirectoryInodes, n \in Names, m \in Modes :
            mknod(req, p, n, m)
    \/ \E i \in KnownInodes, fh \in ReadHandles, o \in ReadOffsets, sz \in ReadSizes :
            read(i, fh, o, sz)
    \/ \E i \in KnownInodes : readlink(i)

SpecReads == InitMount /\ [][NextReads]_vars

\* the flags of the kernel's open requests: the three access modes, both
\* mode bits at once, O_RDONLY with O_TRUNC and the exec open
OpenFlags == {O_RDONLY, O_WRONLY, O_RDWR, O_ACCMODE, O_RDONLY + O_TRUNC,
              O_RDONLY + FMODE_EXEC}

\* the root tree of that mount, a file and a symlink, unless init finds no
\* root and takes the empty tree
HandleTrees == {Tree_get_hash(ChildTree)}

\* a mount whose inodes are opened and released
NextHandles ==
    \/ \E t \in HandleTrees : set_root_tree(t)
    \/ init
    \/ \E t \in HandleTrees : set_root_tree_mounted(t)
    \/ \E req \in Requests, i \in KnownInodes \cup {MissingInode}, fl \in OpenFlags :
            open(req, i, fl)
    \/ \E req \in Requests, i \in DirectoryInodes, fl \in OpenFlags :
            opendir(req, i, fl)
    \/ \E i \in KnownInodes : release(i)
    \/ \E i \in DirectoryInodes : releasedir(i)

SpecHandles == InitMount /\ [][NextHandles]_vars

\* a mount whose directories are made and removed
NextRemove ==
    \/ \E t \in DOMAIN trees : set_root_tree(t)
    \/ init
    \/ \E req \in Requests, p \in DirectoryInodes, n \in Names : mkdir(req, p, n)
    \/ \E req \in Requests, p \in DirectoryInodes, n \in Names : rmdir(req, p, n)

SpecRemove == InitMount /\ [][NextRemove]_vars

----------------------------------------------------------------------------
(* The mount store under two threads.  Every clone of a MountStore shares   *)
(* the maps (Arc<Mutex<..>>) and the counter (Arc<AtomicU64>); a thread     *)
(* takes one step per atomic operation or critical section.                *)

\* no thread starts a create_new_node once next_inode is beyond this
MaxAllocInode == 4

\* no thread starts a set_root_tree once next_inode is beyond this
MaxAllocRootInode == 3

\* a fetch_add that does not store the sum
allocate_inode_load(counter) == [inode |-> counter, next_inode |-> counter]

\* MountStore::allocate_inode: next_inode.fetch_add(1, SeqCst), one atomic
\* step that returns the old value
allocate_inode(counter) == [inode |-> counter, next_inode |-> counter + 1]

\* thread t calls allocate_inode
Allocates(t, a) ==
    /\ next_inode' = a.next_inode
    /\ allocated' = Append(allocated, a.inode)

Frame(inode, hash) ==
    [inode |-> inode, hash |-> hash, tree |-> <<>>, i |-> 0,
     entries |-> <<>>, new_inode |-> 0]

Top(t) == threads[t].stack[Len(threads[t].stack)]

SetTop(t, frame) ==
    [threads[t].stack EXCEPT ![Len(threads[t].stack)] = frame]

\* thread t goes on at pc with that stack
Continues(t, pc, stack) ==
    threads' = [threads EXCEPT ![t] = [@ EXCEPT !.pc = pc, !.stack = stack]]

\* a panic unwinds thread t: it aborts the session of the FUSE thread, and
\* is caught at the top of any other thread
Unwinds(t) ==
    /\ threads' = [threads EXCEPT ![t] = IdleThread]
    /\ session' = IF t = "vfs" THEN "aborted" ELSE session

\* set_root_tree returned to thread t: init then starts to serve
Returns(t) ==
    /\ threads' = [threads EXCEPT ![t] = IdleThread]
    /\ session' = IF t = "vfs" THEN "serving" ELSE session

\* a thread other than the FUSE thread calls set_root_tree(store, hash)
set_root_tree_call(t, hash) ==
    /\ t # "vfs"
    /\ threads[t].pc = "idle"
    /\ next_inode <= MaxAllocRootInode
    /\ threads' = [threads EXCEPT ![t] = [pc |-> "burn", stack |-> <<>>, arg |-> hash]]
    /\ UNCHANGED <<repoVars, storeVars, nodes, directories, next_inode, session,
                   fsVars, allocated, reply>>

\* Filesystem::init on the FUSE thread: get_inode(FUSE_ROOT_ID)
init_get_inode(t) ==
    /\ t = "vfs"
    /\ session = "unmounted"
    /\ threads[t].pc = "idle"
    /\ IF get_inode(MountState, FUSE_ROOT_ID) = <<>>
       THEN /\ threads' = [threads EXCEPT ![t] =
                              [pc |-> "burn", stack |-> <<>>, arg |-> EmptyTreeId]]
            /\ UNCHANGED session
       ELSE /\ session' = "serving"
            /\ UNCHANGED threads
    /\ UNCHANGED <<repoVars, storeVars, nodes, directories, next_inode,
                   fsVars, allocated, reply>>

\* set_root_tree: burn an inode
set_root_tree_burn(t) ==
    /\ threads[t].pc = "burn"
    /\ Allocates(t, allocate_inode(next_inode))
    /\ Continues(t, "get_tree", <<Frame(1, threads[t].arg)>>)
    /\ UNCHANGED <<repoVars, storeVars, nodes, directories, session, fsVars, reply>>

\* insert_tree: store.get_tree(hash).expect(..), then the descriptor with `.`
insert_tree_get_tree(t) ==
    /\ threads[t].pc = "get_tree"
    /\ LET f == Top(t)
       IN  IF "trees" \in poisoned \/ Store_get(trees, f.hash) = <<>>
           THEN Unwinds(t)
           ELSE /\ Continues(t, "loop",
                      SetTop(t, [f EXCEPT !.tree = trees[f.hash], !.i = 1,
                                   !.entries = Insert(<<>>, Dot, <<f.inode, "Directory">>)]))
                /\ UNCHANGED session
    /\ UNCHANGED <<repoVars, storeVars, nodes, directories, next_inode,
                   fsVars, allocated, reply>>

\* insert_tree: allocate_inode for the next entry of the tree
insert_tree_allocate(t) ==
    /\ threads[t].pc = "loop"
    /\ LET f == Top(t)
           a == allocate_inode(next_inode)
       IN  /\ f.i <= Len(f.tree)
           /\ Allocates(t, a)
           /\ Continues(t, "entry", SetTop(t, [f EXCEPT !.new_inode = a.inode]))
    /\ UNCHANGED <<repoVars, storeVars, nodes, directories, session, fsVars, reply>>

\* insert_tree: the match on the entry; a file or a symlink is inserted and
\* named, a tree is entered
insert_tree_entry(t) ==
    /\ threads[t].pc = "entry"
    /\ LET f == Top(t)
           e == f.tree[f.i][2]
           named == [f EXCEPT !.entries = Insert(@, f.tree[f.i][1],
                                                 <<f.new_inode, EntryKind(e)>>),
                              !.i = @ + 1]
           st == CASE e.tag = "File" -> MountStore_insert_file(MountState, e.id, f.new_inode)
                   [] e.tag = "SymlinkId" ->
                          MountStore_insert_symlink(MountState, e.id, f.new_inode)
                   [] e.tag = "TreeId" -> MountState
                   [] OTHER -> Unwind(MountState)
       IN  IF ~st.ok
           THEN /\ Unwinds(t)
                /\ UNCHANGED nodes
           ELSE /\ nodes' = st.nodes
                /\ UNCHANGED session
                /\ IF e.tag = "TreeId"
                   THEN Continues(t, "get_tree",
                            Append(threads[t].stack, Frame(f.new_inode, e.id)))
                   ELSE Continues(t, "loop", SetTop(t, named))
    /\ UNCHANGED <<repoVars, storeVars, directories, next_inode, fsVars,
                   allocated, reply>>

\* insert_tree: after the loop, set_inode(attrs)
insert_tree_set_inode(t) ==
    /\ threads[t].pc = "loop"
    /\ LET f == Top(t)
       IN  /\ f.i > Len(f.tree)
           /\ nodes' = MountStore_set_inode(
                           MountState, InodeAttributes_new(f.inode, "Directory", 0)).nodes
    /\ Continues(t, "set_directory_content", threads[t].stack)
    /\ UNCHANGED <<repoVars, storeVars, directories, next_inode, session,
                   fsVars, allocated, reply>>

\* insert_tree: set_directory_content(inode, entries) and the return, to
\* the loop of the enclosing insert_tree or out of set_root_tree
insert_tree_set_directory_content(t) ==
    /\ threads[t].pc = "set_directory_content"
    /\ LET f == Top(t)
           n == Len(threads[t].stack)
       IN  /\ directories' = MountStore_set_directory_content(
                                 MountState, f.inode, f.entries).directories
           /\ IF n = 1
              THEN Returns(t)
              ELSE LET g == threads[t].stack[n - 1]
                   IN  /\ Continues(t, "loop",
                             [SubSeq(threads[t].stack, 1, n - 1) EXCEPT ![n - 1] =
                                 [g EXCEPT !.entries = Insert(@, g.tree[g.i][1],
                                                            <<g.new_inode, "Directory">>),
                                           !.i = @ + 1]])
                       /\ UNCHANGED session
    /\ UNCHANGED <<repoVars, storeVars, nodes, next_inode, fsVars, allocated, reply>>

\* create_new_node(kind) on the FUSE thread (mknod, mkdir, symlink):
\* allocate_inode
create_new_node_allocate(t, kind) ==
    /\ t = "vfs"
    /\ Serving
    /\ threads[t].pc = "idle"
    /\ next_inode <= MaxAllocInode
    /\ LET a == allocate_inode(next_inode)
       IN  /\ Allocates(t, a)
           /\ threads' = [threads EXCEPT ![t] =
                             [pc |-> "set_inode", stack |-> <<>>,
                              arg |-> InodeAttributes_new(a.inode, kind, 0)]]
    /\ UNCHANGED <<repoVars, storeVars, nodes, directories, session, fsVars, reply>>

\* a handler on the FUSE thread reads the attributes of an inode to store
\* them again (open, release, write, rename): get_inode
handler_get_inode(t, inode) ==
    /\ t = "vfs"
    /\ Serving
    /\ threads[t].pc = "idle"
    /\ get_inode(MountState, inode) # <<>>
    /\ threads' = [threads EXCEPT ![t] =
                      [pc |-> "set_inode", stack |-> <<>>, arg |-> nodes[inode]]]
    /\ UNCHANGED <<repoVars, storeVars, nodes, directories, next_inode, session,
                   fsVars, allocated, reply>>

\* create_new_node and those handlers: set_inode(attrs)
thread_set_inode(t) ==
    /\ threads[t].pc = "set_inode"
    /\ nodes' = MountStore_set_inode(MountState, threads[t].arg).nodes
    /\ threads' = [threads EXCEPT ![t] = IdleThread]
    /\ UNCHANGED <<repoVars, storeVars, directories, next_inode, session,
                   fsVars, allocated, reply>>

FileKinds == {"File", "Symlink", "Directory"}

NextAlloc ==
    \/ \E t \in Threads, h \in DOMAIN trees : set_root_tree_call(t, h)
    \/ \E t \in Threads : init_get_inode(t)
    \/ \E t \in Threads : set_root_tree_burn(t)
    \/ \E t \in Threads : insert_tree_get_tree(t)
    \/ \E t \in Threads : insert_tree_allocate(t)
    \/ \E t \in Threads : insert_tree_entry(t)
    \/ \E t \in Threads : insert_tree_set_inode(t)
    \/ \E t \in Threads : insert_tree_set_directory_content(t)
    \/ \E t \in Threads, k \in FileKinds : create_new_node_allocate(t, k)
    \/ \E t \in Threads, i \in DOMAIN nodes : handler_get_inode(t, i)
    \/ \E t \in Threads : thread_set_inode(t)

SpecAlloc == InitMount /\ [][NextAlloc]_vars

\* the trees the other thread installs while the session starts: the tree
\* of a file and a symlink, the nested tree and the empty tree
RaceTrees == {Tree_get_hash(ChildTree), Tree_get_hash(RootTree), EmptyTreeId}

\* a fresh mount whose session was spawned (initialize_repo) while another
\* thread has just called set_root_tree(store, t), as in setup_mount and
\* its tests; reply keeps the tree that call was given
InitRace ==
    /\ \E h \in RaceTrees :
          /\ threads = [t \in Threads |->
                          IF t = "vfs" THEN IdleThread
                          ELSE [pc |-> "burn", stack |-> <<>>, arg |-> h]]
          /\ reply = [op |-> "set_root_tree", arg |-> h, status |-> "called",
                      val |-> <<>>, replaced |-> FALSE]
    /\ files = Store_write_file_map(<<>>, FixtureFile)
    /\ symlinks = Store_write_symlink_map(<<>>, FixtureSymlink)
    /\ trees = Store_write_tree_map(
                  Store_write_tree_map(Store_new_trees, ChildTree), RootTree)
    /\ commits = <<>>
    /\ poisoned = {}
    /\ nodes = <<>>
    /\ directories = <<>>
    /\ next_inode = 1
    /\ session = "unmounted"
    /\ next_file_handle = FirstFileHandle
    /\ issued = <<>>
    /\ allocated = <<>>
    /\ mounts = <<>>
    /\ fuse_sessions = <<>>
    /\ created = 0
    /\ tasks = [k \in Tasks |-> IdleTask]

\* the init upcall on the FUSE thread and the set_root_tree of the other
\* thread, step by step in any order
NextRace ==
    \/ \E t \in Threads : init_get_inode(t)
    \/ \E t \in Threads : set_root_tree_burn(t)
    \/ \E t \in Threads : insert_tree_get_tree(t)
    \/ \E t \in Threads : insert_tree_allocate(t)
    \/ \E t \in Threads : insert_tree_entry(t)
    \/ \E t \in Threads : insert_tree_set_inode(t)
    \/ \E t \in Threads : insert_tree_set_directory_content(t)

SpecRace == InitRace /\ [][NextRace]_vars

----------------------------------------------------------------------------
(* Claims about the object store and the RPC service *)

\* C1: a second Store::write_file / write_symlink / write_tree of the same
\* content returns the id of the first call and leaves every object map as
\* it was after the first call: writing any content twice gives the map that
\* writing it once gives, and a call whose insert found its key bound has
\* left the content it was given under that key.
C1_StoreWriteIdempotent ==
    /\ \A c \in Contents :
         /\ Store_write_file_map(Store_write_file_map(files, c), c)
              = Store_write_file_map(files, c)
         /\ Store_write_symlink_map(Store_write_symlink_map(symlinks, c), c)
              = Store_write_symlink_map(symlinks, c)
    /\ \A t \in StoreTrees :
         Tree_hashable(t) =>
            Store_write_tree_map(Store_write_tree_map(trees, t), t)
              = Store_write_tree_map(trees, t)
    /\ (reply.op = "Store::write_file" /\ reply.status = "ok") =>
         /\ reply.val = File_get_hash(reply.arg)
         /\ files = Store_write_file_map(files, reply.arg)
    /\ (reply.op = "Store::write_symlink" /\ reply.status = "ok") =>
         /\ reply.val = Symlink_get_hash(reply.arg)
         /\ symlinks = Store_write_symlink_map(symlinks, reply.arg)
    /\ (reply.op = "Store::write_tree" /\ reply.status = "ok") =>
         /\ reply.val = Tree_get_hash(reply.arg)
         /\ trees = Store_write_tree_map(trees, reply.arg)

\* a Store::write_file whose content was in the store already
C1_Witness ==
    /\ reply.op = "Store::write_file"
    /\ reply.status = "ok"
    /\ reply.replaced
    /\ reply.arg # <<>>

\* C2: for every file, symlink and commit with at least one parent, reading
\* the id the write RPC returned answers the object that was written, also
\* after later writes of other objects (as long as no handler panicked with
\* the map's lock held).
C2_ReadReturnsWritten ==
    /\ \A d \in Contents :
         /\ (Backend_file_id(d) \in DOMAIN files /\ "files" \notin poisoned) =>
               Backend_read_file_reply(Backend_file_id(d))
                 = Ok("read_file", Backend_file_id(d), d)
         /\ (Backend_symlink_id(d) \in DOMAIN symlinks /\ "symlinks" \notin poisoned) =>
               Backend_read_symlink_reply(Backend_symlink_id(d))
                 = Ok("read_symlink", Backend_symlink_id(d), d)
    /\ \A c \in ProtoCommits :
         (/\ c.parents # <<>>
          /\ Backend_commit_id(c) \in DOMAIN commits
          /\ "commits" \notin poisoned) =>
             Backend_read_commit_reply(Backend_commit_id(c))
               = Ok("read_commit", Backend_commit_id(c), c)
    /\ (reply.op = "write_file" /\ reply.status = "ok") =>
         reply.val \in DOMAIN files /\ reply.val = Backend_file_id(reply.arg)
    /\ (reply.op = "write_symlink" /\ reply.status = "ok") =>
         reply.val \in DOMAIN symlinks /\ reply.val = Backend_symlink_id(reply.arg)
    /\ (reply.op = "write_commit" /\ reply.status = "ok") =>
         reply.val \in DOMAIN commits /\ reply.val = Backend_commit_id(reply.arg)

\* a merge commit read back while the store holds another commit too
C2_Witness ==
    /\ reply.op = "read_commit"
    /\ reply.status = "ok"
    /\ Len(reply.val.parents) = 2
    /\ reply.val.parents[1] # RootCommitId
    /\ Cardinality(DOMAIN commits) >= 2

\* the wire tree with the entries of a stored tree, in their order
Tree_wire_image(tree) ==
    [i \in 1..Len(tree) |-> [name |-> tree[i][1], value |-> tree[i][2]]]

\* C3: read_tree called with the id of a written tree replies with a tree
\* of the same entries in the same order, whatever the kinds of the entries.
C3_ReadTreeReturnsWritten ==
    (reply.op = "read_tree" /\ reply.arg \in DOMAIN trees /\ "trees" \notin poisoned) =>
        /\ reply.status = "ok"
        /\ reply.val = Tree_wire_image(trees[reply.arg])

\* C4: write_commit with an empty parents list replies with an error status
\* whose message says the commit has no parents, and leaves the commit map
\* (and the rest of the store) unchanged.
C4_NoParentsRejected ==
    [][(reply'.op = "write_commit" /\ reply'.arg.parents = <<>>) =>
          /\ reply'.status = "internal"
          /\ reply'.val = NoParentsMessage
          /\ UNCHANGED storeVars]_vars

\* a commit without parents rejected by a store that holds a commit
C4_Witness ==
    /\ reply.op = "write_commit"
    /\ reply.arg.parents = <<>>
    /\ reply.status = "internal"
    /\ commits # <<>>

ReadOps == {"read_file", "read_symlink", "read_tree", "read_commit"}

\* the map a read RPC looks its id up in
ReadMap(op) ==
    CASE op = "read_file" -> files
      [] op = "read_symlink" -> symlinks
      [] op = "read_tree" -> trees
      [] op = "read_commit" -> commits

\* C5: read_file, read_symlink, read_tree and read_commit called with an id
\* that was never written reply with a NotFound status and leave the store
\* unchanged.
C5_UnknownIdNotFound ==
    [][(reply'.op \in ReadOps /\ reply'.arg \notin DOMAIN ReadMap(reply'.op)) =>
          /\ reply'.status = "not_found"
          /\ UNCHANGED storeVars]_vars

\* C6: whichever path stores a file or a symlink, its id is the same, so the
\* store never holds one content under two different ids.
C6_OneIdPerContent ==
    /\ \A i, j \in DOMAIN files : files[i] = files[j] => i = j
    /\ \A i, j \in DOMAIN symlinks : symlinks[i] = symlinks[j] => i = j

----------------------------------------------------------------------------
(* Claims about the mount store and the filesystem *)

\* inode is a directory whose entries are those of tree, each of the kind of
\* its tree entry, files and symlinks backed by the entry's object
RECURSIVE Materialized(_, _)
Materialized(inode, tree) ==
    /\ inode \in DOMAIN nodes
    /\ nodes[inode].kind = "Directory"
    /\ inode \in DOMAIN directories
    /\ DOMAIN directories[inode] \ {Dot, DotDot} = {tree[i][1] : i \in 1..Len(tree)}
    /\ \A i \in 1..Len(tree) :
         LET e == tree[i][2]
             entry == directories[inode][tree[i][1]]
         IN  /\ entry[1] \in DOMAIN nodes
             /\ nodes[entry[1]].kind = entry[2]
             /\ CASE e.tag = "File" ->
                       /\ entry[2] = "File"
                       /\ nodes[entry[1]].hash = <<e.id>>
                       /\ nodes[entry[1]].size = Len(files[e.id])
                  [] e.tag = "SymlinkId" ->
                       /\ entry[2] = "Symlink"
                       /\ nodes[entry[1]].hash = <<e.id>>
                       /\ nodes[entry[1]].size = Len(symlinks[e.id])
                  [] e.tag = "TreeId" ->
                       /\ entry[2] = "Directory"
                       /\ Materialized(entry[1], trees[e.id])
                  [] OTHER -> FALSE

\* C7: when set_root_tree(store, t) has completed, the descriptors walked
\* from inode 1 hold at every level exactly the names of the tree besides
\* `.` and `..`, each of the matching kind, and every file or symlink inode
\* carries the entry's object id as its hash and the object's length as its
\* size; also when another tree was materialized on the mount before.
C7_RootTreeMaterialized ==
    (reply.op = "set_root_tree" /\ reply.status = "ok") =>
        Materialized(FUSE_ROOT_ID, trees[reply.arg])

\* the nested tree materialized on a mount that held the two-entry tree
C7_Witness ==
    /\ reply.op = "set_root_tree"
    /\ reply.status = "ok"
    /\ reply.arg = Tree_get_hash(RootTree)
    /\ next_inode = 8
    /\ 2 \in DOMAIN nodes /\ nodes[2].kind = "File"
    /\ 5 \in DOMAIN directories /\ directories[FUSE_ROOT_ID][<<97>>][1] = 5

\* C8: every directory inode has a descriptor whose `.` is the directory
\* itself, and every directory listed in a descriptor under an ordinary name
\* has a `..` that is the listing directory.
C8_DotAndDotDot ==
    \A d \in DOMAIN nodes :
       nodes[d].kind = "Directory" =>
          /\ d \in DOMAIN directories
          /\ Dot \in DOMAIN directories[d]
          /\ directories[d][Dot] = <<d, "Directory">>
          /\ \A n \in DOMAIN directories[d] \ {Dot, DotDot} :
                directories[d][n][2] = "Directory" =>
                   LET c == directories[d][n][1]
                   IN  /\ c \in DOMAIN directories
                       /\ DotDot \in DOMAIN directories[c]
                       /\ directories[c][DotDot] = <<d, "Directory">>

\* C9: every inode number that an entry of a directory descriptor names is
\* in the inode table, with the kind the entry records.
C9_EntriesHaveInodes ==
    \A d \in DOMAIN directories :
       \A n \in DOMAIN directories[d] :
          /\ directories[d][n][1] \in DOMAIN nodes
          /\ nodes[directories[d][n][1]].kind = directories[d][n][2]

\* a write to a file after a rename took the name of another inode
C9_Witness ==
    /\ reply.op = "write"
    /\ reply.status = "ok"
    /\ \E i \in DOMAIN nodes : nodes[i].hardlinks = 0
    /\ \E d \in DOMAIN directories : Cardinality(DOMAIN directories[d]) > 1

\* the link count InodeAttributes::new gives a kind
FreshLinks(kind) == IF kind = "Directory" THEN 2 ELSE 1

\* C10: an inode made by materialization or by create_new_node starts with
\* hardlinks 2 when it is a directory and 1 when it is a file or a symlink;
\* a directory always has hardlinks of at least 2; dec_hardlink_count is
\* never applied to a count of 0, also when a name is renamed onto itself.
C10_Hardlinks ==
    /\ [](/\ \A i \in DOMAIN nodes :
                nodes[i].kind = "Directory" => nodes[i].hardlinks >= 2
          /\ reply.status # "overflow"
          /\ \A i \in DOMAIN nodes : nodes[i].hardlinks >= 0)
    /\ [][/\ \A i \in DOMAIN nodes' \ DOMAIN nodes :
                nodes'[i].hardlinks = FreshLinks(nodes'[i].kind)
          /\ (reply'.op = "set_root_tree" /\ reply'.status = "ok") =>
                nodes'[FUSE_ROOT_ID].hardlinks = 2]_vars

\* a file renamed onto itself, its link count still 1
C10_Witness ==
    /\ reply.op = "rename"
    /\ reply.status = "ok"
    /\ reply.arg.parent = reply.arg.new_parent
    /\ reply.arg.name = reply.arg.new_name
    /\ LET i == directories[reply.arg.parent][reply.arg.name][1]
       IN  nodes[i].kind = "File" /\ nodes[i].hardlinks = 1

----------------------------------------------------------------------------
(* Claims about inode numbers, file contents and file handles *)

\* C11: the calls of allocate_inode on one mount store, whichever of the
\* two threads makes them, return 1, 2, 3, ... in that order, so no two
\* calls return the same number; every inode number in the inode table is
\* smaller than the counter; and inode 1 never holds a file or a symlink
C11_InodeNumbers ==
    /\ \A k \in 1..Len(allocated) : allocated[k] = k
    /\ \A i \in DOMAIN nodes : i < next_inode
    /\ FUSE_ROOT_ID \in DOMAIN nodes =>
           nodes[FUSE_ROOT_ID].kind \notin {"File", "Symlink"}

\* both threads hold a number they allocated and have not stored yet, while
\* the FUSE thread serves a mounted root
C11_Witness ==
    /\ Serving
    /\ FUSE_ROOT_ID \in DOMAIN nodes
    /\ threads["vfs"].pc = "set_inode"
    /\ threads["vfs"].arg.inode \notin DOMAIN nodes
    /\ threads["other"].pc = "entry"
    /\ Len(allocated) >= 4

\* the bytes c[offset .. min(offset + size, len(c)))
ContentRange(c, offset, size) ==
    LET end == IF offset + size < Len(c) THEN offset + size ELSE Len(c)
    IN  IF offset >= end THEN <<>> ELSE SubSeq(c, offset + 1, end)

\* C12: a read with a read-permitted handle on a file inode whose backing
\* content is c replies with exactly the bytes c[offset .. min(offset+size,
\* len(c))), the empty sequence when offset >= len(c), and changes no state
C12_ReadReturnsRange ==
    [][\A i \in KnownInodes, fh \in ReadHandles, o \in ReadOffsets, sz \in ReadSizes :
          (/\ read(i, fh, o, sz)
           /\ (fh \div FILE_HANDLE_READ_BIT) % 2 = 1
           /\ nodes[i].kind = "File"
           /\ nodes[i].hash # None
           /\ nodes[i].hash[1] \in DOMAIN files)
          => /\ reply'.status = "ok"
             /\ reply'.val = ContentRange(files[nodes[i].hash[1]], o, sz)
             /\ UNCHANGED <<storeVars, mountVars>>]_vars

\* content zero-extended up to offset when shorter, with data overlaid at
\* offset
Overlaid(content, offset, data) ==
    LET end == offset + Len(data)
        n == IF end > Len(content) THEN end ELSE Len(content)
    IN  [k \in 1..n |-> IF k > offset /\ k <= end THEN data[k - offset]
                        ELSE IF k <= Len(content) THEN content[k]
                        ELSE 0]

C14_HandleBitsEnforced ==
    [][/\ \A i \in FileInodes, fh \in FileHandles, o \in WriteOffsets, d \in WriteData :
             (write(i, fh, o, d) /\ (fh \div FILE_HANDLE_WRITE_BIT) % 2 = 0)
             => /\ reply'.status = "EACCES"
                /\ UNCHANGED <<storeVars, nodes, directories>>
       /\ \A i \in KnownInodes, fh \in ReadHandles, o \in ReadOffsets, sz \in ReadSizes :
             (read(i, fh, o, sz) /\ (fh \div FILE_HANDLE_READ_BIT) % 2 = 0)
             => /\ reply'.status = "EACCES"
                /\ UNCHANGED <<storeVars, nodes, directories>>]_vars

\* a write through a read-only handle was refused on a mounted file
C14_Witness ==
    /\ reply.op = "write"
    /\ reply.status = "EACCES"
    /\ FileInodes # {}
    /\ Serving

\* the sequence number of a handle: the bits below the permission bits
SeqOf(fh) == fh % FILE_HANDLE_WRITE_BIT

\* C15: every handle returned by open or opendir has the read bit (bit 63)
\* set exactly when the access mode is O_RDONLY or O_RDWR and the write bit
\* (bit 62) set exactly when it is O_WRONLY or O_RDWR; its low bits are a
\* sequence number strictly greater than that of every handle issued
\* earlier, so no two handles are equal; and the allocation aborts instead
\* of letting the sequence number reach the write bit
C15_HandleEncoding ==
    /\ [][\A req \in Requests, i \in KnownInodes \cup {MissingInode}, fl \in OpenFlags :
            (/\ reply'.status = "ok"
             /\ reply'.op \in {"open", "opendir"}
             /\ next_file_handle' # next_file_handle
             /\ open(req, i, fl) \/ opendir(req, i, fl))
            => LET fh == reply'.val[1]
                   mode == fl % 4
               IN  /\ (fh \div FILE_HANDLE_READ_BIT) % 2 = 1 <=> mode \in {O_RDONLY, O_RDWR}
                   /\ (fh \div FILE_HANDLE_WRITE_BIT) % 2 = 1 <=> mode \in {O_WRONLY, O_RDWR}
                   /\ fh < 2 * FILE_HANDLE_READ_BIT
                   /\ issued' = Append(issued, fh)
                   /\ \A k \in 1..Len(issued) : SeqOf(issued[k]) < SeqOf(fh)]_vars
    /\ [](\A j, k \in 1..Len(issued) : j # k => issued[j] # issued[k])
    /\ [][next_file_handle >= FILE_HANDLE_WRITE_BIT /\ next_file_handle' # next_file_handle
            => session' = "aborted" /\ issued' = issued]_vars

\* three handles were issued, one in each access mode, and the fourth
\* allocation aborted the session
C15_Witness ==
    /\ Len(issued) = 3
    /\ \E j, k, l \in 1..Len(issued) :
          /\ issued[j] \div FILE_HANDLE_WRITE_BIT = 1
          /\ issued[k] \div FILE_HANDLE_WRITE_BIT = 2
          /\ issued[l] \div FILE_HANDLE_WRITE_BIT = 3
    /\ session = "aborted"
    /\ reply.op \in {"open", "opendir"}
    /\ reply.status = "panic"

\* what a step adds to the open-handle count of inode i when the count is
\* the successful open/opendir calls minus the release/releasedir calls: the
\* step is told by the reply it leaves
CountDelta(i) ==
    IF reply'.op \in {"open", "opendir"} /\ reply'.status = "ok" /\ reply'.arg.inode = i
    THEN 1
    ELSE IF /\ reply'.op \in {"release", "releasedir"}
            /\ reply'.arg.inode = i
            /\ nodes[i].open_file_handles > 0
    THEN -1
    ELSE 0

\* C16: over VFS operations and set_root_tree calls on the mount, every
\* inode's open-handle count is the number of successful open/opendir calls
\* on it minus the number of release/releasedir calls on it and never
\* negative; a release or releasedir at count 0 leaves 0 and replies ok; an
\* open that replies EACCES, EINVAL or ENOENT changes neither the count nor
\* the file-handle counter
C16_OpenHandleCount ==
    /\ [](\A i \in DOMAIN nodes : nodes[i].open_file_handles >= 0)
    /\ [][\A i \in DOMAIN nodes :
             /\ i \in DOMAIN nodes'
             /\ nodes'[i].open_file_handles = nodes[i].open_file_handles + CountDelta(i)]_vars
    /\ [][reply'.op \in {"release", "releasedir"} => reply'.status = "ok"]_vars
    /\ [][(/\ reply'.op \in {"open", "opendir"}
           /\ reply'.status \in {"EACCES", "EINVAL", "ENOENT"})
          => UNCHANGED <<nodes, next_file_handle>>]_vars

----------------------------------------------------------------------------
(* Claims about rename, rmdir and mknod *)

\* the mount store after the step
MountStateAfter ==
    [nodes |-> nodes', directories |-> directories', next_inode |-> next_inode',
     ok |-> TRUE]

\* the step is a rename that replied ok; its arguments are in the reply
RenamedOk == reply'.op = "rename" /\ reply'.status = "ok"

\* after the rename in reply', the new name leads to the inode the old name
\* led to, and a moved directory has `.` on itself and `..` on the new parent
RenameArrived ==
    LET a == reply'.arg
        moved == lookup_name(MountState, a.parent, a.name)
        found == lookup_name(MountStateAfter, a.new_parent, a.new_name)
    IN  /\ moved # <<>>
        /\ found # <<>>
        /\ found[1].inode = moved[1].inode
        /\ moved[1].kind = "Directory" =>
              /\ moved[1].inode \in DOMAIN directories'
              /\ Dot \in DOMAIN directories'[moved[1].inode]
              /\ directories'[moved[1].inode][Dot][1] = moved[1].inode
              /\ DotDot \in DOMAIN directories'[moved[1].inode]
              /\ directories'[moved[1].inode][DotDot][1] = a.new_parent

\* after the rename in reply', the old name is gone from the old parent
RenameLeft ==
    lookup_name(MountStateAfter, reply'.arg.parent, reply'.arg.name) = <<>>

\* the rename in reply' is of a name onto itself
RenameOntoItself ==
    /\ reply'.arg.parent = reply'.arg.new_parent
    /\ reply'.arg.name = reply'.arg.new_name

\* C17 as stated: for every rename(p1, n1, p2, n2) that replies ok, for all
\* parents and names including p1 = p2, lookup(p2, n2) then returns the
\* inode lookup(p1, n1) returned before, lookup(p1, n1) returns ENOENT, and
\* a moved directory has `.` on itself and `..` on p2
C17_RenameMoves ==
    [][RenamedOk => RenameArrived /\ RenameLeft]_vars

\* C17, amended: the same for every rename that replies ok unless n1 in p1
\* and n2 in p2 are the same name of the same directory; a rename of a name
\* onto itself replies ok and both lookups return the inode as before
C17_RenameMovesOtherName ==
    [][RenamedOk =>
          /\ RenameArrived
          /\ ~RenameOntoItself => RenameLeft
          /\ RenameOntoItself => ~RenameLeft]_vars

\* a directory was moved to another parent
C17_Witness ==
    /\ reply.op = "rename"
    /\ reply.status = "ok"
    /\ reply.arg.parent # reply.arg.new_parent
    /\ lookup_name(MountState, reply.arg.new_parent, reply.arg.new_name) # <<>>
    /\ lookup_name(MountState, reply.arg.new_parent, reply.arg.new_name)[1].kind
           = "Directory"
    /\ lookup_name(MountState, reply.arg.parent, reply.arg.name) = <<>>

\* the name n of directory d leads to a directory that holds an entry other
\* than `.` and `..`
HoldsEntries(d, n) ==
    LET target == lookup_name(MountState, d, n)
    IN  /\ target # <<>>
        /\ target[1].kind = "Directory"
        /\ target[1].inode \in DOMAIN directories
        /\ DOMAIN directories[target[1].inode] \ {Dot, DotDot} # {}

\* C18: a rename (of an existing name, without RENAME_EXCHANGE) whose target
\* name is a directory that holds an entry other than `.` and `..` replies
\* ENOTEMPTY and leaves the inode table and all directory descriptors
\* unchanged, whether the target was made by mkdir or materialized from a tree
C18_NotEmptyTargetRefused ==
    [][\A req \in Requests, p \in DirectoryInodes, n \in Names,
          np \in DirectoryInodes, nn \in Names :
          (/\ lookup_name(MountState, p, n) # <<>>
           /\ HoldsEntries(np, nn)
           /\ rename(req, p, n, np, nn, 0))
          => /\ reply'.status = "ENOTEMPTY"
             /\ UNCHANGED <<nodes, directories>>]_vars

\* C19: rmdir(parent, name) on an empty directory removes the entry name
\* from the parent's descriptor and replies ok; on a directory that has
\* entries other than `.` and `..` it replies ENOTEMPTY; on a name that is
\* not in the parent it replies ENOENT; in the two error cases the mount
\* store is unchanged
C19_Rmdir ==
    [][\A req \in Requests, p \in DirectoryInodes, n \in Names :
          rmdir(req, p, n)
          => LET target == lookup_name(MountState, p, n)
             IN  /\ target = <<>> =>
                       /\ reply'.status = "ENOENT"
                       /\ UNCHANGED <<nodes, directories, next_inode>>
                 /\ HoldsEntries(p, n) =>
                       /\ reply'.status = "ENOTEMPTY"
                       /\ UNCHANGED <<nodes, directories, next_inode>>
                 /\ (/\ target # <<>>
                     /\ target[1].kind = "Directory"
                     /\ ~HoldsEntries(p, n)) =>
                       /\ reply'.status = "ok"
                       /\ directories'[p] = Remove(directories[p], n)]_vars


\* The step is a mknod request for a name that parent does not hold yet.
MknodOfNewName(req, parent, name, mode) ==
    /\ reply'.op = "mknod"
    /\ parent \in DOMAIN nodes
    /\ lookup_name(MountState, parent, name) = <<>>
    /\ mknod(req, parent, name, mode)

\* The step created the inode next_inode of the kind of mode for req under
\* parent/name, with a descriptor of its own when it is a directory.
MknodCreated(req, parent, name, mode) ==
    LET new == next_inode
        kind == as_file_kind(mode)
    IN  /\ reply'.status = "ok"
        /\ new \notin DOMAIN nodes
        /\ new \in DOMAIN nodes'
        /\ nodes'[new].kind = kind
        /\ nodes'[new].uid = req.uid
        /\ parent \in DOMAIN directories'
        /\ name \in DOMAIN directories'[parent]
        /\ directories'[parent][name] = <<new, kind>>
        /\ kind = "Directory" =>
              /\ new \in DOMAIN directories'
              /\ {Dot, DotDot} \subseteq DOMAIN directories'[new]

\* C20: mknod of a name that an existing parent does not hold, with the file
\* type of a regular file, a symlink or a directory, replies with a newly
\* allocated inode of that kind, owned by the caller's uid and listed by the
\* parent's descriptor under name; a directory made this way has a descriptor
\* of its own holding "." and ".."; any other file type is answered ENOSYS.
C20_Mknod ==
    [][\A req \in Requests, parent \in DirectoryInodes, name \in Names, mode \in Modes :
          MknodOfNewName(req, parent, name, mode) =>
              IF BitAnd(mode, S_IFMT) \in {S_IFREG, S_IFLNK, S_IFDIR}
              THEN MknodCreated(req, parent, name, mode)
              ELSE reply'.status = "ENOSYS"]_vars

----------------------------------------------------------------------------
(* Claims about mkdir, symlink, readdir, access checks and setattr *)

\* the step is a mkdir of req that replied ok
MkdirOk(req) ==
    /\ reply'.op = "mkdir"
    /\ reply'.status = "ok"
    /\ mkdir(req, reply'.arg.parent, reply'.arg.name)

\* every entry other than parent/name is what it was, and the only new
\* descriptor is the one of d
OtherEntriesUnchanged(parent, name, d) ==
    /\ DOMAIN directories' = DOMAIN directories \cup {d}
    /\ \A i \in DOMAIN directories :
          /\ DOMAIN directories'[i]
                = DOMAIN directories[i] \cup (IF i = parent THEN {name} ELSE {})
          /\ \A n \in DOMAIN directories[i] :
                (i # parent \/ n # name) => directories'[i][n] = directories[i][n]

\* C21: after a successful mkdir(parent, name) the parent's descriptor maps
\* name to a directory inode d that was never allocated before, d's descriptor
\* is exactly "." -> d and ".." -> parent, d has two hardlinks, the caller's
\* uid, and the parent's gid when the parent's mode has S_ISGID and the
\* caller's gid otherwise, and every other entry of every descriptor is
\* unchanged.
C21_Mkdir ==
    [][\A req \in Requests :
          MkdirOk(req) =>
              LET parent == reply'.arg.parent
                  name == reply'.arg.name
                  d == next_inode
              IN  /\ d \notin DOMAIN nodes \cup DOMAIN directories
                  /\ \A i \in DOMAIN nodes : i < d
                  /\ next_inode' > d
                  /\ directories'[parent][name] = <<d, "Directory">>
                  /\ d \in DOMAIN directories'
                  /\ directories'[d]
                        = Insert(Insert(<<>>, Dot, <<d, "Directory">>),
                                 DotDot, <<parent, "Directory">>)
                  /\ d \in DOMAIN nodes'
                  /\ nodes'[d].kind = "Directory"
                  /\ nodes'[d].hardlinks = 2
                  /\ nodes'[d].uid = req.uid
                  /\ nodes'[d].gid = IF BitAnd(nodes[parent].mode, S_ISGID) # 0
                                     THEN nodes[parent].gid
                                     ELSE req.gid
                  /\ OtherEntriesUnchanged(parent, name, d)]_vars

\* a mkdir replied ok and the directory it made, owned by the caller's group
\* under a parent of another group, is listed by the parent
C21_Witness ==
    /\ reply.op = "mkdir"
    /\ reply.status = "ok"
    /\ reply.arg.parent \in DOMAIN directories
    /\ reply.arg.parent \in DOMAIN nodes
    /\ reply.arg.name \in DOMAIN directories[reply.arg.parent]
    /\ LET d == directories[reply.arg.parent][reply.arg.name][1]
       IN  /\ d \in DOMAIN nodes
           /\ d \in DOMAIN directories
           /\ DotDot \in DOMAIN directories[d]
           /\ nodes[d].gid # nodes[reply.arg.parent].gid
           /\ \E r \in Requests : nodes[d].gid = r.gid

\* the step is a symlink of req to target that replied ok
SymlinkOk(req, target) ==
    /\ reply'.op = "symlink"
    /\ reply'.status = "ok"
    /\ symlink(req, reply'.arg.parent, reply'.arg.name, target)

\* C22: after a successful symlink(parent, link_name, target),
\* lookup(parent, link_name) returns a Symlink inode whose size is the byte
\* length of target, the store holds a symlink under the inode's backing
\* hash, and readlink on the inode returns exactly the bytes of target.
C22_SymlinkReadlink ==
    [][\A req \in Requests, target \in LinkTargets :
          SymlinkOk(req, target) =>
              LET found == lookup_name(MountStateAfter, reply'.arg.parent,
                                       reply'.arg.name)
              IN  /\ found # <<>>
                  /\ found[1].kind = "Symlink"
                  /\ found[1].size = Len(target)
                  /\ found[1].hash # None
                  /\ found[1].hash[1] \in DOMAIN symlinks'
                  /\ readlink_reply(MountStateAfter, symlinks', poisoned',
                                    found[1].inode)
                        = Ok("readlink", [inode |-> found[1].inode], <<target>>)]_vars

\* a readlink answered with the two-byte target that only a symlink request
\* can have stored
C22_Witness ==
    /\ reply.op = "readlink"
    /\ reply.status = "ok"
    /\ reply.val = << <<195, 169>> >>
    /\ reply.arg.inode \in DOMAIN nodes
    /\ nodes[reply.arg.inode].kind = "Symlink"
    /\ nodes[reply.arg.inode].size = 2

\* the number of names of descriptor dir that sort before name
Rank(dir, name) == Cardinality({n \in DOMAIN dir : BytesLess(n, name)})

\* emitted is what one readdir of dir from offset hands out: the entries from
\* rank offset on in ascending order, as many as fit, the i-th (from 0)
\* tagged offset + i + 1
EmitsFrom(dir, offset, room, emitted) ==
    LET left == IF Cardinality(DOMAIN dir) > offset
                THEN Cardinality(DOMAIN dir) - offset ELSE 0
    IN  /\ Len(emitted) = (IF room < left THEN room ELSE left)
        /\ \A i \in 1..Len(emitted) :
              /\ emitted[i].name \in DOMAIN dir
              /\ Rank(dir, emitted[i].name) = offset + (i - 1)
              /\ emitted[i].offset = offset + (i - 1) + 1
              /\ <<emitted[i].ino, emitted[i].kind>> = dir[emitted[i].name]

\* the entries handed out by a series of readdir calls on an unchanged
\* directory, each resuming from the last next-offset returned
RECURSIVE ReaddirSeries(_, _, _, _)
ReaddirSeries(st, inode, offset, room) ==
    LET emitted == readdir_reply(st, inode, offset, room).val
    IN  IF emitted = <<>> THEN <<>>
        ELSE emitted \o ReaddirSeries(st, inode, emitted[Len(emitted)].offset, room)

\* a series started at 0 lists every entry of every directory exactly once
SeriesListsOnce ==
    \A inode \in DOMAIN directories, room \in ReaddirRooms :
        LET listed == ReaddirSeries(MountState, inode, 0, room)
        IN  /\ Len(listed) = Cardinality(DOMAIN directories[inode])
            /\ {listed[i].name : i \in 1..Len(listed)} = DOMAIN directories[inode]

\* a readdir step answers with what EmitsFrom describes, or ENOENT
ReaddirStep ==
    \A inode \in DOMAIN nodes \cup {MissingInode}, offset \in ReaddirOffsets,
       room \in ReaddirRooms :
        (reply'.op = "readdir" /\ readdir(inode, offset, room)) =>
            IF inode \in DOMAIN directories
            THEN /\ reply'.status = "ok"
                 /\ EmitsFrom(directories[inode], offset, room, reply'.val)
            ELSE reply'.status = "ENOENT"

\* C23: readdir(inode, offset) emits the entries of the directory in ascending
\* name order, skipping the first offset entries, the i-th emitted entry
\* (i from 0) tagged with the next offset offset+i+1; a series of readdir
\* calls on an unchanged directory, each resuming from the last next offset,
\* lists every entry, "." and ".." included when stored, exactly once; an
\* inode without a directory descriptor is answered ENOENT.
C23_Readdir == []SeriesListsOnce /\ [][ReaddirStep]_vars

\* a listing of a made directory resumed after "." that hands out ".."
C23_Witness ==
    /\ reply.op = "readdir"
    /\ reply.status = "ok"
    /\ reply.arg.offset = 1
    /\ Len(reply.val) = 1
    /\ reply.val[1].name = DotDot
    /\ reply.val[1].offset = 2

\* bit b (a power of two) is set in x
HasBit(x, b) == (x \div b) % 2 = 1

\* every bit of mask is among the three permission bits perm
MaskWithin(mask, perm) ==
    \A b \in {R_OK, W_OK, X_OK} : HasBit(mask, b) => HasBit(perm, b)

\* when check_access is to return true, in the words of the rule
AccessRule(a) ==
    \/ a.access_mask = F_OK
    \/ /\ a.uid = 0
       /\ \/ ~HasBit(a.access_mask, X_OK)
          \/ \E shift \in {1, 8, 64} : HasBit(a.file_mode \div shift, X_OK)
    \/ /\ a.uid # 0
       /\ IF a.uid = a.file_uid THEN MaskWithin(a.access_mask, a.file_mode \div 64)
          ELSE IF a.gid = a.file_gid THEN MaskWithin(a.access_mask, a.file_mode \div 8)
          ELSE MaskWithin(a.access_mask, a.file_mode)

\* C24: for every 12-bit mode, every uid and gid and every mask built from
\* R_OK, W_OK and X_OK, check_access returns true exactly when the mask is
\* F_OK, or uid is 0 and the mask has no X bit or one of the three execute
\* bits of the mode is set, or uid is not 0 and every bit of the mask is set in
\* the owner bits when uid = file_uid, else in the group bits when
\* gid = file_gid, else in the other bits.
C24_CheckAccess ==
    (reply.op = "check_access" /\ reply.status = "ok")
        => (reply.val <=> AccessRule(reply.arg))

\* root was refused to execute a file that nobody may execute but that has
\* its setuid bit, and was let read it
C24_Witness ==
    /\ reply.op = "check_access"
    /\ reply.status = "ok"
    /\ reply.arg.uid = 0
    /\ reply.arg.file_mode = 2048 + 384
    /\ reply.arg.access_mask = X_OK
    /\ reply.val = FALSE

\* the value a getattr reports for a field after a setattr that supplied
\* value (an Option) for it
Supplied(value, previous) == IF value = None THEN previous ELSE value[1]

\* C25: after setattr on an existing inode that supplies a mode, uid, gid or
\* size, a following getattr reports the supplied values for those fields
\* and the previous values for the fields that were not supplied; setattr on
\* an unknown inode replies ENOENT.
C25_Setattr ==
    [][\A i \in DOMAIN nodes \cup {MissingInode}, m \in SetattrModes,
          u \in SetattrUids, g \in SetattrGids, sz \in SetattrSizes :
          (reply'.op = "setattr" /\ setattr(i, m, u, g, sz)) =>
              IF i \notin DOMAIN nodes
              THEN reply'.status = "ENOENT"
              ELSE LET after == getattr_reply(MountStateAfter, i)
                   IN  /\ after.status = "ok"
                       /\ after.val[1].perm = Supplied(m, nodes[i].mode)
                       /\ after.val[1].uid = Supplied(u, nodes[i].uid)
                       /\ after.val[1].gid = Supplied(g, nodes[i].gid)
                       /\ after.val[1].size = Supplied(sz, nodes[i].size)]_vars

----------------------------------------------------------------------------
(* Claims about the repo manager and the working-copy RPCs *)

\* a registered mount store stays the one registered for its mountpoint
MountsKept ==
    \A p \in DOMAIN mounts : p \in DOMAIN mounts' /\ mounts'[p].id = mounts[p].id

\* a session is started only for a mountpoint registered in the same step,
\* over the tables of the mount store registered for it
SessionStartedOnce ==
    Len(fuse_sessions') > Len(fuse_sessions) =>
        LET started == fuse_sessions'[Len(fuse_sessions')]
        IN  /\ Len(fuse_sessions') = Len(fuse_sessions) + 1
            /\ started.mountpoint \notin DOMAIN mounts
            /\ started.mountpoint \in DOMAIN mounts'
            /\ started.mount_store = mounts'[started.mountpoint].id

\* get(p) answers the mount store registered for p, the one every session
\* for p serves, and nothing when p was never initialized
GetReturnsRegistered ==
    \A p \in RepoPaths :
        (reply'.op = "get" /\ RepoManager_get_call(p)) =>
            /\ reply'.status = "ok"
            /\ reply'.val = (IF p \in DOMAIN mounts THEN <<mounts[p]>> ELSE <<>>)
            /\ \A i \in 1..Len(fuse_sessions) :
                  fuse_sessions[i].mountpoint = p =>
                      /\ reply'.val # <<>>
                      /\ reply'.val[1].id = fuse_sessions[i].mount_store

\* initialize_repo of a registered mountpoint is stopped by the assertion
SecondInitializeRejected ==
    \A p \in DOMAIN mounts, mounted \in BOOLEAN :
        (reply'.op = "initialize" /\ Backend_initialize(p, mounted)) =>
            /\ reply'.status = "panic"
            /\ UNCHANGED <<mounts, fuse_sessions>>

\* C26: after any sequence of initialize_repo, get and deinit_repo calls every
\* mountpoint has at most one registered mount store and at most one session
\* was started for it; get(p) returns the mount store initialize_repo(p)
\* made, sharing the tables the session for p serves, and nothing for a path
\* never initialized; a second initialize_repo(p) is rejected by the
\* assertion.
C26_RepoManager ==
    [][/\ MountsKept
       /\ SessionStartedOnce
       /\ GetReturnsRegistered
       /\ SecondInitializeRejected]_vars

\* what get_checkout_state answers for mount store mount: <<>> when it
\* panics
CheckoutStateOf(mount) ==
    LET op == MountStore_get_field(mount, "op_id")
        ws == MountStore_get_field(op.mount, "workspace_id")
    IN  IF op.ok /\ ws.ok THEN <<[op_id |-> op.val, workspace_id |-> ws.val]>>
        ELSE <<>>

\* set_checkout_state(p, cs) completes, get_checkout_state(p) then answers
\* cs, and the other paths keep their mount stores
SetThenGet(p, cs) ==
    (reply'.op = "set_checkout_state" /\ Backend_set_checkout_state(p, Some(cs))) =>
        /\ reply'.status = "ok"
        /\ "mounts" \notin poisoned'
        /\ CheckoutStateOf(mounts'[p]) = <<cs>>
        /\ \A q \in DOMAIN mounts \ {p} : mounts'[q] = mounts[q]

\* only a completed set_checkout_state(p, ...) changes the checkout state of p
OnlySetChanges ==
    \A p \in DOMAIN mounts :
        (p \in DOMAIN mounts' /\ CheckoutStateOf(mounts'[p]) # CheckoutStateOf(mounts[p]))
            => /\ reply'.op = "set_checkout_state"
               /\ reply'.status = "ok"
               /\ reply'.arg.path = p

\* C27: for every initialized working-copy path p, every operation id (a byte
\* string of any length) and every workspace id, get_checkout_state(p)
\* returns the (op_id, workspace_id) of the most recent completed
\* set_checkout_state(p, ...), and the checkout state of every other path is
\* unaffected by that call.
C27_CheckoutState ==
    [][/\ \A p \in DOMAIN mounts, o \in OperationIds, w \in WorkspaceIds :
             SetThenGet(p, [op_id |-> o, workspace_id |-> w])
       /\ OnlySetChanges]_vars

\* the reply is an RPC error status carrying a message
IsErrorStatus(r) == r.status \notin {"ok", "panic", "none"} /\ r.val # <<>>

\* the step answers an error status and changes nothing of the daemon
RepliesErrorOnly ==
    /\ IsErrorStatus(reply')
    /\ UNCHANGED <<storeVars, mountVars>>

\* C28: get_tree_state, get_checkout_state, set_checkout_state and snapshot
\* for a working-copy path that was never initialized, and get_checkout_state
\* on an initialized path before any set_checkout_state, reply with an RPC
\* error status carrying a message and leave the daemon's state unchanged and
\* able to serve later requests.
C28_UninitializedErrors ==
    [][/\ \A p \in RepoPaths \ DOMAIN mounts :
             /\ (reply'.op = "get_tree_state" /\ Backend_get_tree_state(p))
                   => RepliesErrorOnly
             /\ (reply'.op = "snapshot" /\ Backend_snapshot(p))
                   => RepliesErrorOnly
             /\ (reply'.op = "get_checkout_state" /\ Backend_get_checkout_state(p))
                   => RepliesErrorOnly
             /\ \A cs \in CheckoutStates :
                   (reply'.op = "set_checkout_state" /\ Backend_set_checkout_state(p, cs))
                       => RepliesErrorOnly
       /\ \A p \in DOMAIN mounts :
             (/\ reply'.op = "get_checkout_state"
              /\ mounts[p].op_id = None
              /\ Backend_get_checkout_state(p))
                 => RepliesErrorOnly]_vars

\* C29: snapshot(p) replies with the mount's current tree id, the id
\* get_tree_state(p) replies with in the same state; for a mount whose tree
\* id was never set this is the store's empty tree id; neither call changes
\* the mount store or the object store.
C29_SnapshotTreeId ==
    [][\A p \in DOMAIN mounts :
          /\ (reply'.op = "snapshot" /\ Backend_snapshot(p)) =>
                /\ reply'.status = "ok"
                /\ reply'.val = mounts[p].tree_id
                /\ reply'.val = EmptyTreeId
                /\ tree_id_reply("get_tree_state", p).status = "ok"
                /\ tree_id_reply("get_tree_state", p).val = reply'.val
                /\ UNCHANGED <<storeVars, mountVars>>
          /\ (reply'.op = "get_tree_state" /\ Backend_get_tree_state(p)) =>
                /\ reply'.status = "ok"
                /\ reply'.val = mounts[p].tree_id
                /\ UNCHANGED <<storeVars, mountVars>>]_vars

----------------------------------------------------------------------------
(* Claims about the content hash *)

\* C30: for all values a, b and x of the primitive types of the content
\* hasher (unit, bool, u8, i32, i64, strings) the canonical encodings, and so
\* the hashes, of the tuple (a, b), of Some(x), of None and of x are pairwise
\* distinct.
C30_HashesDistinct ==
    (reply.op = "blake3" /\ reply.status = "ok") =>
        /\ reply.val.tuple # reply.val.some
        /\ reply.val.tuple # reply.val.none
        /\ reply.val.tuple # reply.val.plain
        /\ reply.val.some # reply.val.none
        /\ reply.val.some # reply.val.plain
        /\ reply.val.none # reply.val.plain

----------------------------------------------------------------------------
(* Claims about rename targets, object immutability and failed creations *)

\* the name n of directory d leads to a directory whose descriptor holds
\* `.` and `..` and nothing else
IsEmptyDirectory(d, n) ==
    LET target == lookup_name(MountState, d, n)
    IN  /\ target # <<>>
        /\ target[1].kind = "Directory"
        /\ target[1].inode \in DOMAIN directories
        /\ DOMAIN directories[target[1].inode] \subseteq {Dot, DotDot}

\* the rename step kept or replaced the entry nn of np: it is not left
\* without an entry
TargetKeptOrReplaced(p, n, np, nn) ==
    lookup_name(MountState, np, nn) # <<>>
    => LET found == lookup_name(MountStateAfter, np, nn)
       IN  /\ found # <<>>
           /\ \/ found[1].inode = lookup_name(MountState, np, nn)[1].inode
              \/ found[1].inode = lookup_name(MountState, p, n)[1].inode

\* C31: a rename (of an existing name, without RENAME_EXCHANGE) whose target
\* name exists and is an empty directory replies ok, after which the target
\* name leads to the moved inode and the source name is gone; and no rename
\* takes the target entry out of its parent without putting the moved inode
\* under that name
C31_RenameOntoEmptyDirectory ==
    [][\A req \in Requests, p \in DirectoryInodes, n \in Names,
          np \in DirectoryInodes, nn \in Names :
          (/\ lookup_name(MountState, p, n) # <<>>
           /\ rename(req, p, n, np, nn, 0))
          => /\ TargetKeptOrReplaced(p, n, np, nn)
             /\ (IsEmptyDirectory(np, nn) /\ <<p, n>> # <<np, nn>>) =>
                   /\ reply'.status = "ok"
                   /\ lookup_name(MountStateAfter, np, nn) # <<>>
                   /\ lookup_name(MountStateAfter, np, nn)[1].inode
                         = lookup_name(MountState, p, n)[1].inode
                   /\ lookup_name(MountStateAfter, p, n) = <<>>]_vars

\* every object of map m is in map n under the same id with the same content
ObjectsKept(m, n) == \A id \in DOMAIN m : id \in DOMAIN n /\ n[id] = m[id]

\* the step leaves every stored object where and as it was
StoreOnlyGrows ==
    /\ ObjectsKept(files, files')
    /\ ObjectsKept(symlinks, symlinks')
    /\ ObjectsKept(trees, trees')
    /\ ObjectsKept(commits, commits')

\* inode j has a backing object and it is the one inode i has
SharesObject(i, j) ==
    /\ i # j
    /\ nodes[j].hash # None
    /\ nodes[j].hash = nodes[i].hash
    /\ nodes[j].hash[1] \in DOMAIN files

\* the step leaves what a read of inode j returns as it was: the inode has
\* the same backing object, with the same content, and the buffer of every
\* read request is the same
ReadsAsBefore(j) ==
    /\ j \in DOMAIN nodes'
    /\ nodes'[j].hash = nodes[j].hash
    /\ nodes'[j].hash[1] \in DOMAIN files'
    /\ files'[nodes'[j].hash[1]] = files[nodes[j].hash[1]]
    /\ \A o \in ReadOffsets, sz \in ReadSizes :
          read_buffer(files'[nodes'[j].hash[1]], o, sz)
              = read_buffer(files[nodes[j].hash[1]], o, sz)

\* C32: objects are immutable once written: a write to inode i leaves the
\* content read through every other inode with the same backing object id
\* unchanged, and no step changes the content stored under an id or removes
\* an id from the store
C32_ObjectsImmutable ==
    [][/\ StoreOnlyGrows
       /\ (reply'.op = "write" /\ reply'.status = "ok") =>
             \A j \in DOMAIN nodes :
                SharesObject(reply'.arg.inode, j) => ReadsAsBefore(j)]_vars

\* a write gave one of the two names of the same file id another object
\* while the other name still has the first
C32_Witness ==
    /\ reply.op = "write"
    /\ reply.status = "ok"
    /\ \E i \in DOMAIN nodes, j \in DOMAIN nodes :
          /\ i = reply.arg.inode
          /\ j # i
          /\ nodes[j].hash = Some(File_get_hash(FixtureFile))
          /\ nodes[i].hash \notin {None, nodes[j].hash}
          /\ File_get_hash(FixtureFile) \in DOMAIN files
          /\ files[File_get_hash(FixtureFile)] = FixtureFile
          /\ \E d \in DirectoryInodes :
                /\ d \in DOMAIN directories
                /\ {i, j} \subseteq {directories[d][n][1] : n \in DOMAIN directories[d]}

\* the step is a mknod, mkdir or symlink that replied an errno
CreationRefused ==
    /\ reply'.op \in {"mknod", "mkdir", "symlink"}
    /\ reply'.status \in {"EEXIST", "ENOENT", "ENOSYS", "EACCES"}

\* C33: a mknod, mkdir or symlink call that replies with an errno (EEXIST,
\* ENOENT, ENOSYS, EACCES) leaves the inode table, the directory
\* descriptors, the inode counter and the object store as they were
C33_RefusedCreationChangesNothing ==
    [][CreationRefused =>
          UNCHANGED <<nodes, directories, next_inode,
                      files, symlinks, trees, commits>>]_vars

----------------------------------------------------------------------------
(* Claims about reads of any inode, the directory tree and the root tree *)

\* C34: read with a read-permitted handle on an inode of the inode table,
\* and readlink on such an inode, reply data or an errno and leave the
\* filesystem thread serving, whatever the inode is (a file made by mknod
\* and never written, for which the data is empty, a symlink node made by
\* mknod, a directory) and whatever the offset
C34_ReadsAlwaysReply ==
    [][/\ \A i \in KnownInodes, fh \in ReadHandles, o \in ReadOffsets,
             sz \in ReadSizes :
             (check_file_handle_read(fh) /\ read(i, fh, o, sz))
             => /\ reply'.status # "panic"
                /\ session' = "serving"
                /\ (nodes[i].kind = "File" /\ nodes[i].hash = None)
                      => (reply'.status = "ok" /\ reply'.val = <<>>)
       /\ \A i \in KnownInodes :
             readlink(i) => (reply'.status # "panic" /\ session' = "serving")]_vars

\* the inodes that the entries of the directories in S name in the
\* descriptors dirs, `.` and `..` aside
ChildrenIn(dirs, S) ==
    UNION {{dirs[d][n][1] : n \in DOMAIN dirs[d] \ {Dot, DotDot}} :
             d \in S \cap DOMAIN dirs}

RECURSIVE ReachIn(_, _)
ReachIn(dirs, S) ==
    IF ChildrenIn(dirs, S) \subseteq S THEN S
    ELSE ReachIn(dirs, S \cup ChildrenIn(dirs, S))

\* following `..` from directory d reaches inode 1 in at most n steps
RECURSIVE Ascends(_, _)
Ascends(d, n) ==
    \/ d = FUSE_ROOT_ID
    \/ /\ n > 0
       /\ d \in DOMAIN directories
       /\ DotDot \in DOMAIN directories[d]
       /\ Ascends(directories[d][DotDot][1], n - 1)

\* directory d was made by mkdir: it has its caller as owner, where the
\* directories of a materialized tree have uid 0
MadeByMkdir(d) ==
    /\ d \in DOMAIN nodes
    /\ nodes[d].kind = "Directory"
    /\ nodes[d].uid \in {req.uid : req \in Requests}

\* every directory made by mkdir leads to inode 1 by the `..` entries
DotDotLeadsToRoot ==
    \A d \in DOMAIN directories :
        MadeByMkdir(d) => Ascends(d, Cardinality(DOMAIN directories))

\* a rename that replied ok leaves every directory that was reachable from
\* inode 1 reachable from inode 1
RenameKeepsReachable ==
    RenamedOk =>
        \A d \in DirectoryInodes : d \in ReachIn(directories', {FUSE_ROOT_ID})

\* C35: after set_root_tree and any sequence of mkdir and rename calls the
\* directories form a tree rooted at inode 1: a rename keeps every reachable
\* directory reachable, and the `..` entries of a directory made by mkdir
\* lead to inode 1 (no rename makes a directory an ancestor of itself)
C35_DirectoriesFormTree ==
    []DotDotLeadsToRoot /\ [][RenameKeepsReachable]_vars

\* the init upcall and the other thread's set_root_tree have both returned
BothFinished ==
    /\ session = "serving"
    /\ \A t \in Threads : threads[t].pc = "idle"

\* the descriptor of inode 1 names the entries of the tree stored under h,
\* each with its kind and an inode of the inode table
RootListsTree(h) ==
    /\ FUSE_ROOT_ID \in DOMAIN directories
    /\ h \in DOMAIN trees
    /\ DOMAIN directories[FUSE_ROOT_ID] \ {Dot, DotDot}
          = {trees[h][i][1] : i \in 1..Len(trees[h])}
    /\ \A i \in 1..Len(trees[h]) :
          LET name == trees[h][i][1]
          IN  name \in DOMAIN directories[FUSE_ROOT_ID]
              => /\ directories[FUSE_ROOT_ID][name][2] = EntryKind(trees[h][i][2])
                 /\ directories[FUSE_ROOT_ID][name][1] \in DOMAIN nodes

\* init on a mount whose root inode is present leaves the mount store alone
InitKeepsRoot ==
    (get_inode(MountState, FUSE_ROOT_ID) # <<>> /\ init_get_inode("vfs"))
    => UNCHANGED <<nodes, directories, next_inode>>

\* C36: when the session's init upcall and a set_root_tree(store, t) of
\* another thread run concurrently on a fresh mount, in any interleaving,
\* then once both have finished inode 1 lists exactly the entries of t (init
\* does not put the empty tree over t), and an init that finds the root
\* inode changes nothing
C36_InitRacesSetRootTree ==
    [](BothFinished => RootListsTree(reply.arg)) /\ [][InitKeepsRoot]_vars

----------------------------------------------------------------------------
(* Claims about concurrent RPCs, the blocking client and the repo manager *)

\* C37: with set_checkout_state and get_checkout_state RPCs running at the
\* same time on one working-copy path, every get_checkout_state reply is a
\* pair (op_id, workspace_id) that one set_checkout_state call supplied
\* together, never the op id of one call with the workspace id of another
C37_CheckoutStateNotTorn ==
    (reply.op = "get_checkout_state" /\ reply.status = "ok")
    => \E cs \in RecordedStates :
          /\ reply.val.op_id = cs[1].op_id
          /\ reply.val.workspace_id = cs[1].workspace_id

\* thread k is in a method and waits for a mutex that another thread has
Waits(k) ==
    \/ tasks[k].pc = "lock_first" /\ Held(first_lock(tasks[k].op))
    \/ tasks[k].pc = "lock_second" /\ Held(second_lock(tasks[k].op))

\* thread k is in a method and can take its next step
Runs(k) == tasks[k].pc # "idle" /\ ~Waits(k)

\* C38: threads that call methods on clones of one BlockingBackendClient at
\* the same time never block each other forever: whatever the interleaving
\* of get_empty_tree_id with another method, a thread that waits for a
\* mutex waits for a thread that can go on to take both locks, complete its
\* RPC and return (no lock-order deadlock)
C38_NoLockOrderDeadlock ==
    \A k \in Tasks : Waits(k) => \E j \in Tasks : Runs(j)

\* the operations of the kernel and the set_root_tree calls
TreeOps == {"write", "mknod", "mkdir", "symlink", "rename", "set_root_tree", "init"}

\* the step leaves the tree id of every mount the store's empty tree id
TreeIdStays ==
    /\ \A p \in DOMAIN mounts : p \in DOMAIN mounts'
    /\ \A p \in DOMAIN mounts' : mounts'[p].tree_id = EmptyTreeId

\* the step changed the operation id or the workspace id of mount p
CheckoutStateChanged(p) ==
    \/ mounts'[p].op_id # mounts[p].op_id
    \/ mounts'[p].workspace_id # mounts[p].workspace_id

\* C39: no VFS operation (write, mknod, mkdir, symlink, rename) and no
\* set_root_tree changes a mount's tree id, operation id or workspace id:
\* the tree id that get_tree_state and snapshot report stays the store's
\* empty tree id for the whole life of the mount, and the checkout state
\* changes only through set_checkout_state
C39_TreeIdAndCheckoutStateFrame ==
    [][/\ TreeIdStays
       /\ reply'.op \in TreeOps => UNCHANGED mounts
       /\ (reply'.op \in {"get_tree_state", "snapshot"} /\ reply'.status = "ok")
             => reply'.val = EmptyTreeId
       /\ \A p \in DOMAIN mounts :
             CheckoutStateChanged(p) => reply'.op = "set_checkout_state"]_vars

\* snapshot reports the empty tree id of a mount whose checkout state was
\* set and whose tree holds a directory entry and a written file
C39_Witness ==
    /\ reply.op = "snapshot"
    /\ reply.status = "ok"
    /\ reply.val = EmptyTreeId
    /\ \E p \in DOMAIN mounts : mounts[p].op_id # None
    /\ \E i \in DOMAIN nodes : nodes[i].kind = "File" /\ nodes[i].hash # None
    /\ FUSE_ROOT_ID \in DOMAIN directories
    /\ DOMAIN directories[FUSE_ROOT_ID] \ {Dot, DotDot} # {}

\* the step is an initialize_repo that failed
InitializeFailed == reply'.op = "initialize" /\ reply'.status = "panic"

\* C40: an initialize_repo call that fails (the mountpoint is registered
\* already, it is not a directory, or the session cannot be created) leaves
\* the repo manager as it was: no mount store is registered by it, no
\* session is added, and get on every path answers after it what it
\* answered before, so that later calls on other paths go on normally
C40_FailedInitializeChangesNothing ==
    [][InitializeFailed =>
          /\ UNCHANGED <<mounts, fuse_sessions>>
          /\ \A q \in RepoPaths : (RepoManager_get(q))' = RepoManager_get(q)]_vars

====
